---- MODULE Spec2Model ----
(***************************************************************************)
(* The durable job queue of simple-archiver and the three queue workers    *)
(* that run against it:                                                    *)
(*   "find-cancel-elements"  src/find-cancel-elements.js  (processQueue)   *)
(*   "integrated-queue"      src/unnamed/part_000:295-714 (processQueue)   *)
(*   "puppeteer-archiver"    src/unnamed/part_000:717-1053 (main, db loop) *)
(* The first two use the async PersistentQueue (sqlite/sqlite3): every     *)
(* awaited statement is one step, and steps of different worker processes  *)
(* interleave.  The third uses better-sqlite3, whose calls are synchronous *)
(* and whose claimPending runs inside one transaction.                     *)
(***************************************************************************)
EXTENDS Integers, Sequences, FiniteSets, TLC

(* ------------------------------ bounds --------------------------------- *)
\* worker processes started against the same queue.db
NumWorkers == 2
\* rows the producer may insert
MaxRows == 2
\* values of CURRENT_TIMESTAMP (one-second resolution)
MaxClock == 2
\* largest --limit N tried on the command line
MaxLimit == 1

Workers == 1..NumWorkers
Urls == {"https://a.example/news/1", "https://b.example/story"}

(* ------------------------------ SQL values ----------------------------- *)
\* SQL NULL in an integer or timestamp column
NULL == 0
\* SQL NULL in a text column
NullText == "NULL"

PersistentQueueScripts == {"find-cancel-elements", "integrated-queue"}
Scripts == PersistentQueueScripts \cup {"puppeteer-archiver"}
Modes == {"auto", "processing", "pending"}
\* the optional columns puppeteer-archiver looks for with PRAGMA table_info
OptionalCols == {"tries", "last_error", "outdir", "archived_at"}
\* the table PersistentQueue.init creates has none of them; the table the
\* puppeteer-archiver comment gives as example has all of them
Schemas == {{}, OptionalCols}

Faults == {"none", "navigation", "capture"}
\* err.message of the error thrown by page.goto / page.screenshot / page.pdf
ErrMessage(f) ==
  CASE f = "navigation" -> "net::ERR_NAME_NOT_RESOLVED"
    [] f = "capture" -> "Protocol error (Page.captureScreenshot)"
    [] OTHER -> NullText

VARIABLES
  queue,     \* the queue table: queue[id] is the row with that id
  cols,      \* optional columns of the table, as getQueueColumns reads them
  clock,     \* CURRENT_TIMESTAMP
  lastAdd,   \* the last addJob call and what it returned
  script,    \* script[w]: the program worker w runs
  args,      \* args[w]: parseArgs result of a puppeteer-archiver worker
  pc,        \* pc[w]: the statement worker w is at
  job,       \* job[w]: the row getNextJob / pickProcessing / claimPending returned
  fault,     \* fault[w]: the error the browser raised during the archival run
  result,    \* result[w]: what runArchive / archiveOne returned
  handled,   \* handled[w]: the puppeteer-archiver loop counter
  handed     \* history: <<w, id>> for every row handed to worker w by a claim

queueVars == <<queue, cols, clock, lastAdd, script, args, pc, job, fault, result,
               handled, handed>>

\* the archive identity functions, applied to one url string
VARIABLES
  urlGiven,     \* the url string handed to normalizeUrl / saveArchive
  urlVariant,   \* a second url string: urlGiven with another query and fragment
  normalized,   \* normalizeUrl(urlGiven)
  renormalized, \* normalizeUrl(normalizeUrl(urlGiven))
  archiveIds    \* the archiveId saveArchive computes for urlGiven and urlVariant

urlVars == <<urlGiven, urlVariant, normalized, renormalized, archiveIds>>

\* a value not computed yet
NotRun == <<"not run">>

\* no url string is under study
UrlAtRest ==
  /\ urlGiven = << >>
  /\ urlVariant = << >>
  /\ normalized = NotRun
  /\ renormalized = NotRun
  /\ archiveIds = NotRun

\* one archival run after the other: runArchive / saveArchive / archiveOne
VARIABLES
  runScript,  \* the script whose pipeline runs ("none" before the first run)
  runUrl,     \* the url of the current run
  runNo,      \* runs started so far
  at,         \* the step of the pipeline the run is at (0: no run under way)
  dom,        \* the live page: the kinds of stage that have changed it
  held,       \* modifiedHtml: page content read and not written yet
  trail,      \* the steps this run has executed, in order
  raised,     \* the steps of this run in which an error was thrown
  returned,   \* what the run returned: "true", "false", "none" while running
  archives,   \* the archive store: archives[dir][file] says what was written
  runsLog     \* the finished runs: url, outdir and result of each

runVars == <<runScript, runUrl, runNo, at, dom, held, trail, raised, returned,
             archives, runsLog>>

\* the function with no argument: an empty directory, an empty store
Empty == [x \in {} |-> x]

\* no archival run has started
RunAtRest ==
  /\ runScript = "none"
  /\ runUrl = << >>
  /\ runNo = 0
  /\ at = 0
  /\ dom = {}
  /\ held = NotRun
  /\ trail = << >>
  /\ raised = {}
  /\ returned = "none"
  /\ archives = Empty
  /\ runsLog = << >>

\* the matcher applied to the text of one element
VARIABLES
  matcher,  \* the script whose matcher runs
  elText,   \* el.textContent of the element under the matcher
  term,     \* the search term tried
  matched   \* what the term test returned: "true", "false", "none" before

matchVars == <<matcher, elText, term, matched>>

\* no element is under the matcher
MatchAtRest ==
  /\ matcher = "none"
  /\ elText = << >>
  /\ term = << >>
  /\ matched = "none"

\* one pass of clickPopups
VARIABLES
  popScript,  \* the script whose clickPopups runs
  page,       \* the elements of the document, in document order
  listeners,  \* the event listeners added to window, in order
  matches,    \* what findAllMatchingElements returned, in discovery order
  unique,     \* the list left after the removal of duplicates
  clicked,    \* the elements clicked in this pass, in order
  popAt       \* the statement of clickPopups the pass is at

popVars == <<popScript, page, listeners, matches, unique, clicked, popAt>>

\* clickPopups has not been called
PopAtRest ==
  /\ popScript = "none"
  /\ page = << >>
  /\ listeners = << >>
  /\ matches = << >>
  /\ unique = << >>
  /\ clicked = << >>
  /\ popAt = "off"

\* the page routines of the pipeline, each run on its own
VARIABLES
  slidedown,  \* dismissOneSignalSlidedown: the document and the routine's locals
  sweep,      \* clickVisualCloseButton: the page, the loop and the clicks made
  expand,     \* clickExpandableContent: the article and window.__pCount
  scroll,     \* triggerLazyLoadScroll: the heights read, the loop variable, the offset
  scan,       \* findAllMatchingElements: the frames, the loop and the matches
  lock        \* clickElements: the listeners on window and what the target received

stageVars == <<slidedown, sweep, expand, scroll, scan, lock>>

\* a routine that has not been called
Off == [at |-> "off"]

\* no page routine has been called
StageAtRest ==
  /\ slidedown = Off
  /\ sweep = Off
  /\ expand = Off
  /\ scroll = Off
  /\ scan = Off
  /\ lock = Off

nonQueueVars == <<urlVars, runVars, matchVars, popVars, stageVars>>
NonQueueAtRest == UrlAtRest /\ RunAtRest /\ MatchAtRest /\ PopAtRest /\ StageAtRest

vars == <<queueVars, nonQueueVars>>

NoJob == [id |-> NULL, url |-> NullText]
\* no archive directory: the outdir column is NULL / the result has no outdir
NoDir == <<NULL, NullText>>
NoResult == [ok |-> FALSE, outdir |-> NoDir, error |-> NullText]
NoArgs == [mode |-> "auto", noClaim |-> FALSE, limit |-> NULL]

(* ------------------------------ the table ------------------------------ *)
\* INSERT ... (url,status) VALUES (?, 'pending'): the defaults of CREATE TABLE
NewRow(url, now) ==
  [url |-> url, status |-> "pending", added_at |-> now, started_at |-> NULL,
   completed_at |-> NULL, error_message |-> NullText, retry_count |-> 0,
   tries |-> NULL, last_error |-> NullText, outdir |-> NoDir,
   archived_at |-> NULL]

Ids(q) == DOMAIN q
WithStatus(q, s) == {i \in Ids(q) : q[i].status = s}

\* UNIQUE(url): the INSERT OR IGNORE conflicts iff a row with this url exists
UrlPresent(q, url) == \E i \in Ids(q) : q[i].url = url

Min(S) == CHOOSE x \in S : \A y \in S : x <= y


(* --------------------- PersistentQueue (async sqlite) ------------------ *)
\* addJob as it would be with a plain INSERT on a table without UNIQUE(url)
addJob_plainInsert(q, url, now) ==
  [queue |-> Append(q, NewRow(url, now)), ret |-> TRUE]

\* addJob: INSERT OR IGNORE; res.changes === 0 on a UNIQUE(url) conflict
addJob(q, url, now) ==
  IF UrlPresent(q, url)
    THEN [queue |-> q, ret |-> FALSE]
    ELSE [queue |-> Append(q, NewRow(url, now)), ret |-> TRUE]

\* getNextJob, first statement:
\*   SELECT * FROM queue WHERE status='pending' ORDER BY added_at ASC LIMIT 1
\* The id of the row returned, NULL for no row.  ORDER BY names added_at
\* alone; SQLite runs the statement as a search of idx_status (rowid order)
\* into a temp b-tree keyed by added_at and arrival, so among rows with the
\* same added_at it returns the one with the lowest id.
selectPending(q) ==
  IF WithStatus(q, "pending") = {} THEN NULL
  ELSE Min({i \in WithStatus(q, "pending") :
              \A j \in WithStatus(q, "pending") : q[i].added_at <= q[j].added_at})

\* getNextJob, second statement:
\*   UPDATE queue SET status='processing', started_at=CURRENT_TIMESTAMP WHERE id=?
claimUpdate(q, id, now) ==
  [q EXCEPT ![id].status = "processing", ![id].started_at = now]

\* updateJobStatus as it would be if its UPDATE matched no row
updateJobStatus_noRow(q, id, status, error, now) == q

\* updateJobStatus(id, status, error): completed_at is written only when the
\* status argument is exactly "completed"
updateJobStatus(q, id, status, error, now) ==
  IF status = "completed"
    THEN [q EXCEPT ![id].status = status, ![id].completed_at = now,
                   ![id].error_message = error]
    ELSE [q EXCEPT ![id].status = status, ![id].error_message = error]

\* the status argument processQueue passes: ok ? <done> : "failed"
\* find-cancel-elements.js:1867 passes "complete", part_000:686 "completed"
statusArg(s, ok) ==
  IF ok THEN (IF s = "find-cancel-elements" THEN "complete" ELSE "completed")
        ELSE "failed"

\* the error argument processQueue passes: ok ? null : "Archive failed"
errorArg(ok) == IF ok THEN NullText ELSE "Archive failed"

\* getStats: GROUP BY status counts written into the stats object, then total
getStats(q) ==
  [total |-> Len(q),
   pending |-> Cardinality(WithStatus(q, "pending")),
   processing |-> Cardinality(WithStatus(q, "processing")),
   completed |-> Cardinality(WithStatus(q, "completed")),
   failed |-> Cardinality(WithStatus(q, "failed"))]

\* runArchive: any error thrown inside the try block is caught, returns false
runArchive(f) == [ok |-> f = "none", outdir |-> NoDir, error |-> NullText]

(* --------------------- puppeteer-archiver (better-sqlite3) ------------- *)
\* markProcessing: status, and tries / last_error when the columns exist
markProcessing(q, c, id) ==
  [q EXCEPT ![id].status = "processing",
            ![id].tries = IF "tries" \in c THEN @ + 1 ELSE @,
            ![id].last_error = IF "last_error" \in c THEN NullText ELSE @]

\* markCompleted: status, and outdir / archived_at when the columns exist
markCompleted(q, c, id, outdir, now) ==
  [q EXCEPT ![id].status = "completed",
            ![id].outdir = IF "outdir" \in c THEN outdir ELSE @,
            ![id].archived_at = IF "archived_at" \in c THEN now ELSE @]

\* markFailed: status, and last_error / archived_at when the columns exist
markFailed(q, c, id, error, now) ==
  [q EXCEPT ![id].status = "failed",
            ![id].last_error = IF "last_error" \in c THEN error ELSE @,
            ![id].archived_at = IF "archived_at" \in c THEN now ELSE @]

\* SELECT id, url FROM queue WHERE status='processing' ORDER BY id LIMIT 1
pickProcessing(q) ==
  IF WithStatus(q, "processing") = {} THEN NULL
  ELSE Min(WithStatus(q, "processing"))

\* SELECT id, url FROM queue WHERE status='pending' ORDER BY id LIMIT 1
pickPending(q) ==
  IF WithStatus(q, "pending") = {} THEN NULL
  ELSE Min(WithStatus(q, "pending"))

\* claimPending: pickPending and markProcessing inside one db.transaction,
\* which SQLite serialises against the transactions of other processes
claimPending(q, c) ==
  LET id == pickPending(q) IN
    IF id = NULL THEN [queue |-> q, row |-> NULL]
    ELSE [queue |-> markProcessing(q, c, id), row |-> id]

\* archiveOne: outdir is archive/<stamp>_<slug>; a page.goto error is caught
\* and only warned about; any later error makes the result {ok:false, error}
archiveOne(url, f, now) ==
  IF f = "capture"
    THEN [ok |-> FALSE, outdir |-> NoDir, error |-> ErrMessage(f)]
    ELSE [ok |-> TRUE, outdir |-> <<now, url>>, error |-> NullText]

RowOf(q, id) == [id |-> id, url |-> q[id].url]


(* ------------------------------ initial state -------------------------- *)
\* queue.db right after PersistentQueue.init on a new file: an empty table;
\* no worker process started yet
Init ==
  /\ queue = << >>
  /\ cols = {}
  /\ clock = 1
  /\ lastAdd = [url |-> NullText, ret |-> FALSE]
  /\ script = [w \in Workers |-> "none"]
  /\ args = [w \in Workers |-> NoArgs]
  /\ pc = [w \in Workers |-> "off"]
  /\ job = [w \in Workers |-> NoJob]
  /\ fault = [w \in Workers |-> "none"]
  /\ result = [w \in Workers |-> NoResult]
  /\ handled = [w \in Workers |-> 0]
  /\ handed = {}
  /\ NonQueueAtRest

\* the queue and its workers when no queue.db is in use
QueueAtRest ==
  /\ queue = << >>
  /\ cols = {}
  /\ clock = 1
  /\ lastAdd = [url |-> NullText, ret |-> FALSE]
  /\ script = [w \in Workers |-> "none"]
  /\ args = [w \in Workers |-> NoArgs]
  /\ pc = [w \in Workers |-> "off"]
  /\ job = [w \in Workers |-> NoJob]
  /\ fault = [w \in Workers |-> "none"]
  /\ result = [w \in Workers |-> NoResult]
  /\ handled = [w \in Workers |-> 0]
  /\ handed = {}

\* everything outside one component, and all of it at rest
outsideUrl == <<queueVars, runVars, matchVars, popVars, stageVars>>
OutsideUrlAtRest == QueueAtRest /\ RunAtRest /\ MatchAtRest /\ PopAtRest /\ StageAtRest
outsideRun == <<queueVars, urlVars, matchVars, popVars, stageVars>>
OutsideRunAtRest == QueueAtRest /\ UrlAtRest /\ MatchAtRest /\ PopAtRest /\ StageAtRest
outsideMatch == <<queueVars, urlVars, runVars, popVars, stageVars>>
OutsideMatchAtRest == QueueAtRest /\ UrlAtRest /\ RunAtRest /\ PopAtRest /\ StageAtRest
outsidePop == <<queueVars, urlVars, runVars, matchVars, stageVars>>
OutsidePopAtRest == QueueAtRest /\ UrlAtRest /\ RunAtRest /\ MatchAtRest /\ StageAtRest
outsideStage == <<queueVars, urlVars, runVars, matchVars, popVars>>
\* everything outside one page routine
outsideSlidedown == <<outsideStage, sweep, expand, scroll, scan, lock>>
outsideSweep == <<outsideStage, slidedown, expand, scroll, scan, lock>>
outsideExpand == <<outsideStage, slidedown, sweep, scroll, scan, lock>>
outsideScroll == <<outsideStage, slidedown, sweep, expand, scan, lock>>
outsideScan == <<outsideStage, slidedown, sweep, expand, scroll, lock>>
outsideLock == <<outsideStage, slidedown, sweep, expand, scroll, scan>>
OutsideStageAtRest == QueueAtRest /\ UrlAtRest /\ RunAtRest /\ MatchAtRest /\ PopAtRest

workerVars == <<script, args, pc, job, fault, result, handled, handed>>

(* ------------------------------ environment ---------------------------- *)
\* one second passes
Tick ==
  /\ clock < MaxClock
  /\ clock' = clock + 1
  /\ UNCHANGED <<queue, cols, lastAdd, workerVars>>
  /\ UNCHANGED nonQueueVars

\* the producer calls queue.addJob(url)
AddJob ==
  \E url \in Urls :
    /\ Len(addJob(queue, url, clock).queue) <= MaxRows
    /\ queue' = addJob(queue, url, clock).queue
    /\ lastAdd' = [url |-> url, ret |-> addJob(queue, url, clock).ret]
    /\ UNCHANGED <<cols, clock, workerVars>>
    /\ UNCHANGED nonQueueVars

(* ------------------- processQueue over PersistentQueue ----------------- *)
\* node <script> --db queue.db: main creates the queue and enters processQueue
\* (the workers of one queue.db all belong to the same family of scripts)
StartProcessQueue(w) ==
  /\ pc[w] = "off"
  /\ \A v \in Workers : script[v] # "puppeteer-archiver"
  /\ \E s \in PersistentQueueScripts : script' = [script EXCEPT ![w] = s]
  /\ pc' = [pc EXCEPT ![w] = "getNextJob"]
  /\ UNCHANGED <<queue, cols, clock, lastAdd, args, job, fault, result,
                 handled, handed>>
  /\ UNCHANGED nonQueueVars

\* getNextJob up to its first await: the SELECT; no row ends the worker
GetNextJobSelect(w) ==
  /\ pc[w] = "getNextJob"
  /\ IF selectPending(queue) = NULL
       THEN /\ pc' = [pc EXCEPT ![w] = "exited"]
            /\ UNCHANGED job
       ELSE /\ job' = [job EXCEPT ![w] = RowOf(queue, selectPending(queue))]
            /\ pc' = [pc EXCEPT ![w] = "claimUpdate"]
  /\ UNCHANGED <<queue, cols, clock, lastAdd, script, args, fault, result,
                 handled, handed>>
  /\ UNCHANGED nonQueueVars

\* getNextJob after the await: the UPDATE, then the row is returned
GetNextJobUpdate(w) ==
  /\ pc[w] = "claimUpdate"
  /\ queue' = claimUpdate(queue, job[w].id, clock)
  /\ handed' = handed \cup {<<w, job[w].id>>}
  /\ pc' = [pc EXCEPT ![w] = "runArchive"]
  /\ UNCHANGED <<cols, clock, lastAdd, script, args, job, fault, result,
                 handled>>
  /\ UNCHANGED nonQueueVars

\* const ok = await runArchive(job.url)
RunArchive(w) ==
  /\ pc[w] = "runArchive"
  /\ \E f \in Faults :
       /\ fault' = [fault EXCEPT ![w] = f]
       /\ result' = [result EXCEPT ![w] = runArchive(f)]
  /\ pc' = [pc EXCEPT ![w] = "updateJobStatus"]
  /\ UNCHANGED <<queue, cols, clock, lastAdd, script, args, job, handled,
                 handed>>
  /\ UNCHANGED nonQueueVars

\* await queue.updateJobStatus(job.id, ok ? ... : "failed", ...); getStats
\* only reads; the loop starts over
UpdateJobStatus(w) ==
  /\ pc[w] = "updateJobStatus"
  /\ queue' = updateJobStatus(queue, job[w].id, statusArg(script[w], result[w].ok),
                              errorArg(result[w].ok), clock)
  /\ pc' = [pc EXCEPT ![w] = "getNextJob"]
  /\ job' = [job EXCEPT ![w] = NoJob]
  /\ fault' = [fault EXCEPT ![w] = "none"]
  /\ result' = [result EXCEPT ![w] = NoResult]
  /\ UNCHANGED <<cols, clock, lastAdd, script, args, handled, handed>>
  /\ UNCHANGED nonQueueVars


(* ------------------- puppeteer-archiver, --db loop --------------------- *)
\* the command lines tried: the default (--mode auto, no limit), --limit N,
\* --mode pending, --mode processing and --no-claim
\* (limit NULL: no --limit given, or --limit 0)
ArgSets ==
  {[mode |-> "auto", noClaim |-> FALSE, limit |-> n] : n \in NULL..MaxLimit}
  \cup {[mode |-> m, noClaim |-> FALSE, limit |-> NULL] : m \in Modes}
  \cup {[mode |-> "auto", noClaim |-> TRUE, limit |-> NULL]}

\* node puppeteer-archiver.mjs --db queue.db ...: parseArgs, getQueueColumns,
\* handled = 0.  The table's optional columns are fixed once the first
\* worker has read them (the workers of one queue.db see the same table).
StartArchiver(w) ==
  /\ pc[w] = "off"
  /\ \A v \in Workers : script[v] \notin PersistentQueueScripts
  /\ script' = [script EXCEPT ![w] = "puppeteer-archiver"]
  /\ \E a \in ArgSets : args' = [args EXCEPT ![w] = a]
  /\ IF \E v \in Workers : script[v] = "puppeteer-archiver"
       THEN cols' = cols
       ELSE cols' \in Schemas
  /\ pc' = [pc EXCEPT ![w] = "loop"]
  /\ UNCHANGED <<queue, clock, lastAdd, job, fault, result, handled, handed>>
  /\ UNCHANGED nonQueueVars

\* head of the while loop: row = pickProcessing(db) in modes processing and
\* auto; whether claimPending is tried next; break when there is no work
LoopHead(w) ==
  /\ pc[w] = "loop"
  /\ LET row == IF args[w].mode \in {"processing", "auto"}
                  THEN pickProcessing(queue) ELSE NULL
     IN IF row # NULL
          THEN /\ job' = [job EXCEPT ![w] = RowOf(queue, row)]
               /\ handed' = handed \cup {<<w, row>>}
               /\ pc' = [pc EXCEPT ![w] = "archiveOne"]
          ELSE /\ pc' = [pc EXCEPT ![w] =
                          IF args[w].mode # "processing" /\ ~args[w].noClaim
                            THEN "claimPending" ELSE "exited"]
               /\ UNCHANGED <<job, handed>>
  /\ UNCHANGED <<queue, cols, clock, lastAdd, script, args, fault, result,
                 handled>>
  /\ UNCHANGED nonQueueVars

\* row = claimPending(db, cols): one transaction; break when it returns null
ClaimPending(w) ==
  /\ pc[w] = "claimPending"
  /\ LET r == claimPending(queue, cols)
     IN /\ queue' = r.queue
        /\ IF r.row = NULL
             THEN /\ pc' = [pc EXCEPT ![w] = "exited"]
                  /\ UNCHANGED <<job, handed>>
             ELSE /\ job' = [job EXCEPT ![w] = RowOf(queue, r.row)]
                  /\ handed' = handed \cup {<<w, r.row>>}
                  /\ pc' = [pc EXCEPT ![w] = "archiveOne"]
  /\ UNCHANGED <<cols, clock, lastAdd, script, args, fault, result, handled>>
  /\ UNCHANGED nonQueueVars

\* const { ok, outdir, error } = await archiveOne(browser, row.url)
ArchiveOne(w) ==
  /\ pc[w] = "archiveOne"
  /\ \E f \in Faults :
       /\ fault' = [fault EXCEPT ![w] = f]
       /\ result' = [result EXCEPT ![w] = archiveOne(job[w].url, f, clock)]
  /\ pc' = [pc EXCEPT ![w] = "mark"]
  /\ UNCHANGED <<queue, cols, clock, lastAdd, script, args, job, handled,
                 handed>>
  /\ UNCHANGED nonQueueVars

\* markCompleted or markFailed, handled++, the --limit check
MarkResult(w) ==
  /\ pc[w] = "mark"
  /\ queue' = IF result[w].ok
                THEN markCompleted(queue, cols, job[w].id, result[w].outdir, clock)
                ELSE markFailed(queue, cols, job[w].id, result[w].error, clock)
  /\ handled' = [handled EXCEPT ![w] = @ + 1]
  /\ pc' = [pc EXCEPT ![w] =
              IF args[w].limit # NULL /\ handled[w] + 1 >= args[w].limit
                THEN "exited" ELSE "loop"]
  /\ job' = [job EXCEPT ![w] = NoJob]
  /\ fault' = [fault EXCEPT ![w] = "none"]
  /\ result' = [result EXCEPT ![w] = NoResult]
  /\ UNCHANGED <<cols, clock, lastAdd, script, args, handed>>
  /\ UNCHANGED nonQueueVars

(* ------------------------------ specification -------------------------- *)
Next ==
  \/ Tick
  \/ AddJob
  \/ \E w \in Workers :
       \/ StartProcessQueue(w)
       \/ GetNextJobSelect(w)
       \/ GetNextJobUpdate(w)
       \/ RunArchive(w)
       \/ UpdateJobStatus(w)
       \/ StartArchiver(w)
       \/ LoopHead(w)
       \/ ClaimPending(w)
       \/ ArchiveOne(w)
       \/ MarkResult(w)

Spec == Init /\ [][Next]_vars


(* ------------------------------ vocabulary ----------------------------- *)
Statuses == {"pending", "processing", "completed", "failed"}
Terminal == {"completed", "failed"}

\* worker w is a running process
Active(w) == pc[w] \notin {"off", "exited"}
\* the rows handed to worker w so far
HandedTo(w) == {id \in Ids(queue) : <<w, id>> \in handed}
\* the workers row id was handed to so far
Holders(id) == {w \in Workers : <<w, id>> \in handed}
\* this step is worker w writing back the result of its job
WritesBack(w) ==
  \/ pc[w] = "updateJobStatus" /\ pc'[w] # pc[w]
  \/ pc[w] = "mark" /\ pc'[w] # pc[w]
\* this step hands row id to worker w
HandsOut(w, id) == <<w, id>> \in handed' /\ <<w, id>> \notin handed

(* ------------------------------ C1 ------------------------------------- *)
\* C1: PersistentQueue.getNextJob under concurrent callers: no job id is
\* returned to two callers, in any interleaving of their SELECT and UPDATE.
C1_NoJobReturnedTwice ==
  \A id \in Ids(queue) :
    Cardinality({w \in Holders(id) : script[w] \in PersistentQueueScripts}) <= 1

(* ------------------------------ C2 ------------------------------------- *)
\* C2: two puppeteer-archiver workers in the default mode (auto, claiming):
\* no row is handed to, and archived by, both of them.
C2_NoRowArchivedTwice ==
  \A id \in Ids(queue) :
    Cardinality({w \in Holders(id) :
                   /\ script[w] = "puppeteer-archiver"
                   /\ args[w].mode = "auto" /\ ~args[w].noClaim}) <= 1

(* ------------------------------ C3 ------------------------------------- *)
UniqueUrls(q) == \A i, j \in Ids(q) : q[i].url = q[j].url => i = j

\* C3: after any sequence of submit, claim and terminal-transition steps the
\* queue holds at most one row per url, and addJob of a url that is present
\* (in any status) returns false and leaves the table as it is.
C3_OneRowPerUrl ==
  [][/\ UniqueUrls(queue')
     /\ (lastAdd' # lastAdd /\ (\E i \in Ids(queue) : queue[i].url = lastAdd'.url))
          => (lastAdd'.ret = FALSE /\ queue' = queue)]_vars

\* a duplicate of a url whose row is already failed has been rejected
C3_Witness ==
  /\ lastAdd.ret = FALSE
  /\ \E i \in Ids(queue) : queue[i].url = lastAdd.url /\ queue[i].status = "failed"
  /\ \E i \in Ids(queue) : queue[i].status = "processing"

(* ------------------------------ C4 ------------------------------------- *)
\* the pending row submitted first (ids are handed out in submission order)
OldestPending(q) == Min(WithStatus(q, "pending"))

\* C4: a claim (getNextJob, claimPending) always takes the pending job that
\* was submitted first, also among equal added_at, and the claimed row
\* becomes 'processing' with started_at recorded.
C4_OldestFirstAndStarted ==
  [][\A w \in Workers :
       /\ (pc[w] = "getNextJob" /\ pc'[w] = "claimUpdate")
            => job'[w].id = OldestPending(queue)
       /\ (pc[w] = "claimPending" /\ pc'[w] = "archiveOne")
            => job'[w].id = OldestPending(queue)
       /\ (pc[w] \in {"claimUpdate", "claimPending"} /\ job'[w] # NoJob
             /\ pc'[w] # pc[w])
            => /\ queue'[job'[w].id].status = "processing"
               /\ queue'[job'[w].id].started_at # NULL]_vars

(* ------------------------------ C5 ------------------------------------- *)
\* C5: complete / fail on a row that is already completed or failed is a
\* no-op: status, completion timestamp and error message stay as they are.
C5_TerminalIdempotent ==
  [][\A w \in Workers :
       (WritesBack(w) /\ queue[job[w].id].status \in Terminal)
         => queue'[job[w].id] = queue[job[w].id]]_vars

(* ------------------------------ C6 ------------------------------------- *)
\* the moves of the job lifecycle
LifecycleMove(a, b) ==
  \/ a = b
  \/ a = "pending" /\ b = "processing"
  \/ a = "processing" /\ b \in Terminal

\* C6: a status only moves pending -> processing -> completed | failed, and
\* a row that is completed or failed is never handed out by a later claim.
C6_LifecycleOnly ==
  [][/\ \A id \in Ids(queue) : LifecycleMove(queue[id].status, queue'[id].status)
     /\ \A w \in Workers : \A id \in Ids(queue) :
          HandsOut(w, id) => queue[id].status \notin Terminal]_vars

(* ------------------------------ C7 ------------------------------------- *)
\* C7: every row's status is one of pending, processing, completed, failed.
C7_StatusLiterals == \A id \in Ids(queue) : queue[id].status \in Statuses

(* ------------------------------ C8 ------------------------------------- *)
\* C8: when processQueue writes back a run for which runArchive returned
\* true, the row ends 'completed' with a non-null completed_at.
C8_SuccessIsCompleted ==
  [][\A w \in Workers :
       (pc[w] = "updateJobStatus" /\ pc'[w] # pc[w] /\ result[w].ok)
         => /\ queue'[job[w].id].status = "completed"
            /\ queue'[job[w].id].completed_at # NULL]_vars

(* ------------------------------ C9 ------------------------------------- *)
\* the error text and the completion time a row stores, per family of script
StoredError(s, row) ==
  IF s = "puppeteer-archiver" THEN row.last_error ELSE row.error_message
StoredDoneAt(s, row) ==
  IF s = "puppeteer-archiver" THEN row.archived_at ELSE row.completed_at

\* C9: a run that failed at job level (navigation or capture error) ends
\* 'failed', storing the message of the underlying error and a completion
\* timestamp.
C9_FailureKeepsMessage ==
  [][\A w \in Workers :
       (WritesBack(w) /\ fault[w] # "none")
         => /\ queue'[job[w].id].status = "failed"
            /\ StoredError(script[w], queue'[job[w].id]) = ErrMessage(fault[w])
            /\ StoredDoneAt(script[w], queue'[job[w].id]) # NULL]_vars

MaxUrlLen == 4

Scheme == "https://"
BodySymbols == {" ", "/", "?", "#", "a", "A", "news"}

\* String.prototype.toLowerCase, symbol by symbol
\* (the capital letters that occur in the texts of this development)
UpperCase == <<"A", "C", "E", "K", "L", "M", "N", "O", "S", "W">>
LowerCase == <<"a", "c", "e", "k", "l", "m", "n", "o", "s", "w">>
lowerOf ==
  [c \in {UpperCase[k] : k \in 1..Len(UpperCase)} |->
     LowerCase[CHOOSE k \in 1..Len(UpperCase) : UpperCase[k] = c]]
toLowerCase(s) ==
  [i \in 1..Len(s) |-> IF s[i] \in DOMAIN lowerOf THEN lowerOf[s[i]] ELSE s[i]]

\* String.prototype.trim
RECURSIVE trimStart(_)
trimStart(s) ==
  IF s # << >> /\ Head(s) = " " THEN trimStart(Tail(s)) ELSE s
RECURSIVE trimEnd(_)
trimEnd(s) ==
  IF s # << >> /\ s[Len(s)] = " " THEN trimEnd(SubSeq(s, 1, Len(s) - 1)) ELSE s
trim(s) == trimEnd(trimStart(s))

\* the part of s before the first symbol of D, and the part from there on
Before(s, D) ==
  IF \E i \in 1..Len(s) : s[i] \in D
    THEN SubSeq(s, 1, Min({i \in 1..Len(s) : s[i] \in D}) - 1)
    ELSE s
From(s, D) == SubSeq(s, Len(Before(s, D)) + 1, Len(s))

\* percent-encoding of the spaces of a path, query or fragment
percentEncode(s) == [i \in 1..Len(s) |-> IF s[i] = " " THEN "%20" ELSE s[i]]

RECURSIVE skipSlashes(_)
skipSlashes(s) ==
  IF s # << >> /\ Head(s) = "/" THEN skipSlashes(Tail(s)) ELSE s

\* new URL(input) for a special scheme: leading and trailing spaces are
\* stripped; no scheme, an empty host or a space in the host is a TypeError
\* (ok = FALSE); slashes after the scheme are skipped; the host is
\* lowercased; an empty path is "/"; hasQuery / hasHash: a "?" / "#" was
\* present, also with nothing after it
URL(input) ==
  LET t == trim(input)
      rest == IF t = << >> THEN << >> ELSE skipSlashes(Tail(t))
      host == Before(rest, {"/", "?", "#"})
      afterHost == From(rest, {"/", "?", "#"})
      path == Before(afterHost, {"?", "#"})
      afterPath == From(afterHost, {"?", "#"})
      hasQuery == afterPath # << >> /\ Head(afterPath) = "?"
      query == IF hasQuery THEN Before(Tail(afterPath), {"#"}) ELSE << >>
      afterQuery == IF hasQuery THEN From(Tail(afterPath), {"#"}) ELSE afterPath
      hasHash == afterQuery # << >>
      fragment == IF hasHash THEN Tail(afterQuery) ELSE << >>
  IN [ok |-> /\ t # << >> /\ Head(t) = Scheme
             /\ host # << >>
             /\ \A i \in 1..Len(host) : host[i] \notin {" ", "%20"},
      hostname |-> toLowerCase(host),
      pathname |-> IF path = << >> THEN <<"/">> ELSE percentEncode(path),
      hasQuery |-> hasQuery, query |-> percentEncode(query),
      hasHash |-> hasHash, fragment |-> percentEncode(fragment)]

\* URL.prototype.toString: the href
toString(u) ==
  <<Scheme>> \o u.hostname \o u.pathname
    \o (IF u.hasQuery THEN <<"?">> \o u.query ELSE << >>)
    \o (IF u.hasHash THEN <<"#">> \o u.fragment ELSE << >>)

\* u.search: "" when the query is null or empty
search(u) == IF u.query = << >> THEN << >> ELSE <<"?">> \o u.query
\* normalizeUrl as it would be without the line u.search = ""
normalizeUrl_keepSearch(rawUrl) ==
  LET u == URL(trim(rawUrl))
  IN IF u.ok
       THEN toString([u EXCEPT !.hasHash = FALSE, !.fragment = << >>])
       ELSE trim(rawUrl)

\* normalizeUrl: u.hash = ""; u.search = ""; u.toString(); the trimmed input
\* when new URL throws
normalizeUrl(rawUrl) ==
  LET u == URL(trim(rawUrl))
  IN IF u.ok
       THEN toString([u EXCEPT !.hasHash = FALSE, !.fragment = << >>,
                               !.hasQuery = FALSE, !.query = << >>])
       ELSE trim(rawUrl)

\* String.prototype.split(sep) followed by .filter(Boolean): the non-empty
\* pieces of s between separators
RECURSIVE splitNonEmpty(_, _)
splitNonEmpty(s, sep) ==
  IF s = << >> THEN << >>
  ELSE IF Head(s) = sep THEN splitNonEmpty(Tail(s), sep)
  ELSE <<Before(s, {sep})>> \o splitNonEmpty(From(s, {sep}), sep)

\* Array.prototype.join(sep)
RECURSIVE join(_, _)
join(parts, sep) ==
  IF parts = << >> THEN << >>
  ELSE IF Len(parts) = 1 THEN parts[1]
  ELSE parts[1] \o <<sep>> \o join(Tail(parts), sep)

\* the symbols matched by \w (letters and digits) and by [a-z0-9]
WordSymbols == {"a", "A", "news", "20", "untitled"}
LowerWordSymbols == WordSymbols \ {"A"}

\* .replace(/[^\w\s-]/g, ""): of "%20" the "%" goes and "20" stays
RECURSIVE removeUnsafe(_)
removeUnsafe(s) ==
  IF s = << >> THEN << >>
  ELSE (IF Head(s) = "%20" THEN <<"20">>
        ELSE IF Head(s) \in WordSymbols \cup {" ", "-"} THEN <<Head(s)>>
        ELSE << >>) \o removeUnsafe(Tail(s))

\* .replace(/-+/g, "-")
RECURSIVE collapseHyphens(_)
collapseHyphens(s) ==
  IF Len(s) < 2 THEN s
  ELSE IF s[1] = "-" /\ s[2] = "-" THEN collapseHyphens(Tail(s))
  ELSE <<s[1]>> \o collapseHyphens(Tail(s))

\* .replace(/^-|-$/g, ""): one hyphen at the start, one at the end
stripOneHyphen(s) ==
  LET a == IF s # << >> /\ Head(s) = "-" THEN Tail(s) ELSE s
  IN IF a # << >> /\ a[Len(a)] = "-" THEN SubSeq(a, 1, Len(a) - 1) ELSE a

\* .replace(/^-+|-+$/g, ""): every hyphen at the start and at the end
RECURSIVE stripHyphens(_)
stripHyphens(s) ==
  IF s # << >> /\ Head(s) = "-" THEN stripHyphens(Tail(s))
  ELSE IF s # << >> /\ s[Len(s)] = "-" THEN stripHyphens(SubSeq(s, 1, Len(s) - 1))
  ELSE s

\* the path segments slugFromUrl leaves out (of "news", "article", "post",
\* "view", "en" the symbols can spell "news")
skip == {<<"news">>}

\* slugFromUrl as it would be if it split the path together with the query
slugFromUrl_withSearch(url) ==
  LET u == URL(url)
      parts == splitNonEmpty(u.pathname \o search(u), "/")
      filtered == SelectSeq(parts, LAMBDA p : toLowerCase(p) \notin skip)
      joined == IF join(filtered, "-") = << >> THEN u.hostname
                ELSE join(filtered, "-")
  IN IF ~u.ok THEN <<"untitled">>
     ELSE IF parts = << >> THEN u.hostname
     ELSE stripOneHyphen(collapseHyphens(removeUnsafe(joined)))

\* slugFromUrl(url): the path segments outside the skip list joined by "-",
\* the hostname when none is left, "untitled" when new URL throws
slugFromUrl(url) ==
  LET u == URL(url)
      parts == splitNonEmpty(u.pathname, "/")
      filtered == SelectSeq(parts, LAMBDA p : toLowerCase(p) \notin skip)
      joined == IF join(filtered, "-") = << >> THEN u.hostname
                ELSE join(filtered, "-")
  IN IF ~u.ok THEN <<"untitled">>
     ELSE IF parts = << >> THEN u.hostname
     ELSE stripOneHyphen(collapseHyphens(removeUnsafe(joined)))

\* .replace(/[^a-z0-9\-]+/g, "-"): every run of other characters becomes one
\* hyphen ("%20" is such a character followed by "20")
RECURSIVE replaceRuns(_, _)
replaceRuns(s, inRun) ==
  IF s = << >> THEN << >>
  ELSE IF Head(s) \in LowerWordSymbols \cup {"-"}
         THEN <<Head(s)>> \o replaceRuns(Tail(s), FALSE)
  ELSE (IF inRun THEN << >> ELSE <<"-">>)
         \o (IF Head(s) = "%20" THEN <<"20">> ELSE << >>)
         \o replaceRuns(Tail(s), Head(s) # "%20")

\* slugifyTitle(title)
slugifyTitle(title) ==
  IF title = << >> THEN <<"untitled">>
  ELSE stripHyphens(replaceRuns(toLowerCase(title), FALSE))

\* md5Hash(input, length): the first `length` hex digits of the MD5 digest of
\* input, kept as the pair of the two; equal inputs give equal digests
md5Hash(input, length) == [md5 |-> input, hexDigits |-> length]

\* makeArchiveId(url, title): `${slug}_${urlHash}`
makeArchiveId(url, title) ==
  [slug |-> slugifyTitle(title), sep |-> "_",
   urlHash |-> md5Hash(normalizeUrl(url), 8)]

\* saveArchive, first two lines: title = slugFromUrl(url), then the id
archiveIdOf(url) == makeArchiveId(url, slugFromUrl(url))

(* ------------------- the identity functions on bounded inputs ---------- *)
\* the strings over A of length at most n
Strings(A, n) == UNION {[1..k -> A] : k \in 0..n}

\* the url strings tried: any body, with or without a scheme in front, with
\* or without a space before it
UrlInputs ==
  {pad \o pre \o body : pad \in {<< >>, <<" ">>}, pre \in {<< >>, <<Scheme>>},
                        body \in Strings(BodySymbols, MaxUrlLen)}

\* tracking parameters and fragments put in place of the ones a url has
Tails == {<< >>, <<"?", "a">>, <<"#", "A">>, <<"?", "A", "#", "a">>}

UrlInit ==
  /\ urlGiven \in UrlInputs
  /\ urlVariant \in {Before(urlGiven, {"?", "#"}) \o t : t \in Tails}
  /\ normalized = NotRun
  /\ renormalized = NotRun
  /\ archiveIds = NotRun
  /\ OutsideUrlAtRest

\* const normalized = normalizeUrl(url)
NormalizeUrl ==
  /\ normalized = NotRun
  /\ normalized' = normalizeUrl(urlGiven)
  /\ UNCHANGED <<urlGiven, urlVariant, renormalized, archiveIds, outsideUrl>>

\* normalizeUrl applied to its own result
NormalizeAgain ==
  /\ normalized # NotRun
  /\ renormalized = NotRun
  /\ renormalized' = normalizeUrl(normalized)
  /\ UNCHANGED <<urlGiven, urlVariant, normalized, archiveIds, outsideUrl>>

\* saveArchive computes the archive id, once for each of the two urls
MakeArchiveId ==
  /\ renormalized # NotRun
  /\ archiveIds = NotRun
  /\ archiveIds' = <<archiveIdOf(urlGiven), archiveIdOf(urlVariant)>>
  /\ UNCHANGED <<urlGiven, urlVariant, normalized, renormalized, outsideUrl>>

UrlNext == NormalizeUrl \/ NormalizeAgain \/ MakeArchiveId

UrlSpec == UrlInit /\ [][UrlNext]_vars


(***************************************************************************)
(* One archival run: runArchive and saveArchive of find-cancel-elements.js *)
(* (1788-1855, 1419-1671) and of the queue script of part_000 (633-674,    *)
(* 580-627), and archiveOne of puppeteer-archiver (part_000:822-890).      *)
(* A run is the list of the awaited steps of its script, executed one      *)
(* after the other on one page; any step may throw.                        *)
(***************************************************************************)
\* archival runs started one after the other
MaxRuns == 2

\* a step: the call, what kind of step it is, whether an error thrown inside
\* it is caught before it leaves the call, the file it writes ("" for none)
Step(op, kind, guarded, file) ==
  [op |-> op, kind |-> kind, guarded |-> guarded, file |-> file]

\* the kinds of step that change the live page
SanitizeKinds == {"dismiss", "ads", "scroll", "expand", "layout", "footer"}

\* find-cancel-elements.js: runArchive 1822-1846, then saveArchive 1423-1669
\* (clickPopups catches per frame and per click; no other stage has a catch)
PipelineFindCancel ==
  << Step("page.goto", "navigate", FALSE, ""),
     Step("clickExpandableContent", "expand", FALSE, ""),
     Step("clickReadMore", "expand", FALSE, ""),
     Step("clickBottomFooterButton", "footer", FALSE, ""),
     Step("removeAllGoogleAds", "ads", FALSE, ""),
     Step("fs.mkdirSync", "mkdir", FALSE, ""),
     Step("page.content", "rawHtml", FALSE, "page_raw.html"),
     Step("dismissOneSignalSlidedown", "dismiss", FALSE, ""),
     Step("removeOneSignalBell", "dismiss", FALSE, ""),
     Step("clickPopups", "dismiss", TRUE, ""),
     Step("triggerLazyLoadScroll", "scroll", FALSE, ""),
     Step("page.content", "readHtml", FALSE, ""),
     Step("clickBottomFooterButton", "footer", FALSE, ""),
     Step("removeAllGoogleAds", "ads", FALSE, ""),
     Step("fs.writeFileSync", "writeHtml", FALSE, "page.html"),
     Step("clickExpandableContent", "expand", FALSE, ""),
     Step("page.evaluate", "layout", FALSE, ""),
     Step("page.screenshot", "screenshot", FALSE, "screenshot.png"),
     Step("triggerLazyLoadScroll", "scroll", FALSE, ""),
     Step("page.evaluate", "layout", FALSE, ""),
     Step("page.evaluate", "layout", FALSE, ""),
     Step("page.pdf", "pdf", FALSE, "page.pdf"),
     Step("fs.writeFileSync", "meta", FALSE, "meta.json") >>

\* part_000, queue script: runArchive 651-665, then saveArchive 584-625
PipelineIntegratedQueue ==
  << Step("page.goto", "navigate", FALSE, ""),
     Step("clickPopups", "dismiss", TRUE, ""),
     Step("fs.mkdirSync", "mkdir", FALSE, ""),
     Step("clickPopups", "dismiss", TRUE, ""),
     Step("page.content", "readHtml", FALSE, ""),
     Step("fs.writeFileSync", "writeHtml", FALSE, "page.html"),
     Step("triggerLazyLoadScroll", "scroll", FALSE, ""),
     Step("clickPopups", "dismiss", TRUE, ""),
     Step("page.screenshot", "screenshot", FALSE, "screenshot.png"),
     Step("triggerLazyLoadScroll", "scroll", FALSE, ""),
     Step("clickPopups", "dismiss", TRUE, ""),
     Step("page.pdf", "pdf", FALSE, "page.pdf"),
     Step("fs.writeFileSync", "meta", FALSE, "meta.json") >>

\* part_000, puppeteer-archiver: archiveOne 824-880 (the page.goto error is
\* caught and warned about; siteFixes is an empty hook)
PipelineArchiver ==
  << Step("fsp.mkdir", "mkdir", FALSE, ""),
     Step("page.goto", "navigate", TRUE, ""),
     Step("page.content", "rawHtml", FALSE, "raw.html"),
     Step("page.screenshot", "screenshot", FALSE, "screenshot.png"),
     Step("page.pdf", "pdf", FALSE, "page.pdf"),
     Step("fsp.writeFile", "meta", FALSE, "meta.json") >>

Pipeline(s) ==
  CASE s = "find-cancel-elements" -> PipelineFindCancel
    [] s = "integrated-queue" -> PipelineIntegratedQueue
    [] OTHER -> PipelineArchiver

\* slugFromUrl of puppeteer-archiver (part_000:783-795): hostname + pathname,
\* every run of other characters becomes "-", lowercased, "page" when empty
archiverSlugFromUrl(u) ==
  LET x == URL(u)
      sl == stripHyphens(replaceRuns(toLowerCase(x.hostname \o x.pathname), FALSE))
  IN IF ~x.ok \/ sl = << >> THEN <<"page">> ELSE sl

\* the output directory of a run: ./archives/<archiveId> for saveArchive,
\* archive/<stamp>_<slug> for archiveOne (stamp() has one-second resolution)
outdirOf(s, url, now) ==
  IF s = "puppeteer-archiver"
    THEN [base |-> "archive", stamp |-> now, slug |-> archiverSlugFromUrl(url),
          urlHash |-> md5Hash(<< >>, 0)]
    ELSE [base |-> "./archives", stamp |-> NULL, slug |-> archiveIdOf(url).slug,
          urlHash |-> archiveIdOf(url).urlHash]

\* fs.mkdirSync(outdir, {recursive: true}): an existing directory is kept
mkdir(store, dir) ==
  [d \in DOMAIN store \cup {dir} |-> IF d \in DOMAIN store THEN store[d] ELSE Empty]

\* fs.writeFileSync(path.join(outdir, file), content): replaces the file
writeFile(store, dir, file, content) ==
  [store EXCEPT ![dir] =
     [f \in DOMAIN store[dir] \cup {file} |-> IF f = file THEN content ELSE store[dir][f]]]

\* the urls archived: two that differ in the query string only, and a third
RunUrls ==
  { <<Scheme, "a", "/", "a">>, <<Scheme, "a", "/", "a", "?", "a">>,
    <<Scheme, "a", "/", "A">> }

ArchiveInit == RunAtRest /\ OutsideRunAtRest

\* the step the run is at, and the directory it writes to (archiveOne takes
\* the stamp when it starts, saveArchive needs none)
here == Pipeline(runScript)[at]
runOutdir == runsLog[runNo].outdir

\* runArchive(url) / archiveOne(browser, url) is called: a new page
StartRun ==
  /\ at = 0
  /\ runNo < MaxRuns
  /\ \E s \in Scripts :
       /\ runScript \in {"none", s}
       /\ runScript' = s
       /\ \E url \in RunUrls :
            /\ runUrl' = url
            /\ runsLog' = Append(runsLog, [url |-> url, outdir |-> outdirOf(s, url, clock),
                                           ok |-> "none"])
  /\ runNo' = runNo + 1
  /\ at' = 1
  /\ dom' = {}
  /\ held' = NotRun
  /\ trail' = << >>
  /\ raised' = {}
  /\ returned' = "none"
  /\ UNCHANGED <<archives, outsideRun>>

\* Throw with every step guarded: the error is swallowed where it is thrown
\* and the run goes on to the next step
Throw_swallowed ==
  /\ at \in 1..Len(Pipeline(runScript))
  /\ raised' = raised \cup {at}
  /\ trail' = Append(trail, here)
  /\ at' = at + 1
  /\ UNCHANGED <<runScript, runUrl, runNo, dom, held, returned, runsLog, archives,
                 outsideRun>>

\* an error thrown in the step the run is at: caught inside a guarded step
\* (the step does nothing more, the run goes on), otherwise it leaves
\* through the catch of runArchive / archiveOne, which returns false
Throw ==
  /\ at \in 1..Len(Pipeline(runScript))
  /\ raised' = raised \cup {at}
  /\ trail' = Append(trail, here)
  /\ IF here.guarded
       THEN /\ at' = at + 1
            /\ UNCHANGED <<returned, runsLog>>
       ELSE /\ at' = 0
            /\ returned' = "false"
            /\ runsLog' = [runsLog EXCEPT ![runNo].ok = "false"]
  /\ UNCHANGED <<runScript, runUrl, runNo, dom, held, archives, outsideRun>>

\* await page.goto(url, ...)
Navigate ==
  /\ at \in 1..Len(Pipeline(runScript))
  /\ here.kind = "navigate"
  /\ at' = at + 1
  /\ trail' = Append(trail, here)
  /\ UNCHANGED <<runScript, runUrl, runNo, dom, held, raised, returned, archives,
                 runsLog, outsideRun>>

\* a stage that changes the live page
Sanitize ==
  /\ at \in 1..Len(Pipeline(runScript))
  /\ here.kind \in SanitizeKinds
  /\ dom' = dom \cup {here.kind}
  /\ at' = at + 1
  /\ trail' = Append(trail, here)
  /\ UNCHANGED <<runScript, runUrl, runNo, held, raised, returned, archives,
                 runsLog, outsideRun>>

\* mkdir, page.content, page.screenshot, page.pdf, the writes: what a file
\* holds is the run that wrote it and the page as it was when read
Capture ==
  /\ at \in 1..Len(Pipeline(runScript))
  /\ here.kind \notin SanitizeKinds \cup {"navigate"}
  /\ held' = IF here.kind = "readHtml" THEN dom
             ELSE IF here.kind = "writeHtml" THEN NotRun ELSE held
  /\ archives' =
       CASE here.kind = "mkdir" -> mkdir(archives, runOutdir)
         [] here.kind = "readHtml" -> archives
         [] here.kind = "writeHtml" ->
              writeFile(archives, runOutdir, here.file, [run |-> runNo, page |-> held])
         [] OTHER ->
              writeFile(archives, runOutdir, here.file, [run |-> runNo, page |-> dom])
  /\ at' = at + 1
  /\ trail' = Append(trail, here)
  /\ UNCHANGED <<runScript, runUrl, runNo, dom, raised, returned, runsLog,
                 outsideRun>>

\* return true / return { ok: true, outdir }
ReturnTrue ==
  /\ at = Len(Pipeline(runScript)) + 1
  /\ at' = 0
  /\ returned' = "true"
  /\ runsLog' = [runsLog EXCEPT ![runNo].ok = "true"]
  /\ UNCHANGED <<runScript, runUrl, runNo, dom, held, trail, raised, archives,
                 outsideRun>>

ArchiveNext ==
  \/ Tick
  \/ StartRun
  \/ Throw
  \/ Navigate
  \/ Sanitize
  \/ Capture
  \/ ReturnTrue

ArchiveSpec == ArchiveInit /\ [][ArchiveNext]_vars

(* ------------------------------ C11 ------------------------------------ *)
\* the run has ended
Finished == runNo > 0 /\ at = 0
\* file f of the current run's directory was written by the current run
Written(f) ==
  /\ runOutdir \in DOMAIN archives
  /\ f \in DOMAIN archives[runOutdir]
  /\ archives[runOutdir][f].run = runNo

\* C11: when errors were thrown only inside sanitization stages, the run
\* still executes every remaining step, captures screenshot and PDF, and
\* returns true, so that the job ends completed and not failed.
C11_StageFailureNeverAborts ==
  (/\ Finished /\ raised # {}
   /\ \A i \in raised : Pipeline(runScript)[i].kind \in SanitizeKinds)
    => /\ returned = "true"
       /\ Len(trail) = Len(Pipeline(runScript))
       /\ Written("screenshot.png") /\ Written("page.pdf")

(* ------------------------------ C12 ------------------------------------ *)
\* C12: the raw HTML snapshot is read before any step that changes the page
\* (dismissal, expansion click, footer toggle, ad removal) has been executed.
C12_RawBeforeAnyMutation ==
  \A j \in 1..Len(trail) :
    trail[j].kind = "rawHtml"
      => \A i \in 1..(j - 1) : trail[i].kind \notin SanitizeKinds

(* ------------------------------ C13 ------------------------------------ *)
\* place of a capture in the required order: sanitized HTML, screenshot, PDF
CaptureRank(k) ==
  CASE k = "readHtml" -> 1 [] k = "screenshot" -> 2 [] k = "pdf" -> 3 [] OTHER -> 0

\* C13: sanitized HTML, screenshot and PDF are captured in that order, and no
\* sanitization stage runs once the sanitized HTML has been read from the page.
C13_CapturesAfterSanitization ==
  \A i, j \in 1..Len(trail) :
    i < j =>
      /\ (CaptureRank(trail[i].kind) > 0 /\ CaptureRank(trail[j].kind) > 0)
           => CaptureRank(trail[i].kind) < CaptureRank(trail[j].kind)
      /\ trail[i].kind = "readHtml" => trail[j].kind \notin SanitizeKinds

(* ------------------------------ C14 ------------------------------------ *)
\* place of a stage in the fixed order: dismissal, ad removal, lazy-load
\* scroll, content expansion, layout fix (consecutive calls of one kind count
\* as one stage)
StageRank(k) ==
  CASE k = "dismiss" -> 1 [] k = "ads" -> 2 [] k = "scroll" -> 3
    [] k = "expand" -> 4 [] k = "layout" -> 5 [] OTHER -> 0

\* C14: no stage of the list runs before an earlier one, and none runs again
\* after a later one has run.
C14_FixedStageOrder ==
  \A i, j \in 1..Len(trail) :
    (i < j /\ StageRank(trail[i].kind) > 0 /\ StageRank(trail[j].kind) > 0)
      => StageRank(trail[i].kind) <= StageRank(trail[j].kind)

(* ------------------------------ C17 ------------------------------------ *)
\* C17: two successful runs for the same normalized URL write into the same
\* directory, and that directory holds the files of the later run.
C17_OneDirectoryPerUrl ==
  \A i, j \in 1..Len(runsLog) :
    (/\ i < j
     /\ runsLog[i].ok = "true" /\ runsLog[j].ok = "true"
     /\ normalizeUrl(runsLog[i].url) = normalizeUrl(runsLog[j].url))
      => /\ runsLog[i].outdir = runsLog[j].outdir
         /\ \A f \in DOMAIN archives[runsLog[j].outdir] :
              archives[runsLog[j].outdir][f].run >= j

(* ------------------------------ C15 ------------------------------------ *)
\* two url strings that parse and are the same up to the query string and the
\* fragment
DifferOnlyInTracking(u1, u2) ==
  /\ URL(u1).ok /\ URL(u2).ok
  /\ Before(trim(u1), {"?", "#"}) = Before(trim(u2), {"?", "#"})

\* C15: for two URLs that differ only in query string and/or fragment,
\* saveArchive computes the same archive id, and the id is slug, "_", and the
\* first 8 hex digits of the MD5 of the URL without query and fragment.
C15_SameIdWithoutTracking ==
  (archiveIds # NotRun /\ DifferOnlyInTracking(urlGiven, urlVariant))
    => /\ archiveIds[1] = archiveIds[2]
       /\ archiveIds[1].sep = "_"
       /\ archiveIds[1].urlHash.hexDigits = 8
       /\ archiveIds[1].urlHash.md5
            = <<Scheme>> \o URL(urlGiven).hostname \o URL(urlGiven).pathname

\* ids were computed for two URLs whose queries and fragments differ
C15_Witness ==
  /\ archiveIds # NotRun
  /\ DifferOnlyInTracking(urlGiven, urlVariant)
  /\ URL(urlGiven).hasQuery /\ URL(urlVariant).hasQuery /\ URL(urlVariant).hasHash
  /\ URL(urlGiven).query # URL(urlVariant).query
  /\ Len(URL(urlGiven).pathname) > 1

(* ------------------------------ C16 ------------------------------------ *)
NoQueryNoFragment(s) == \A i \in 1..Len(s) : s[i] \notin {"?", "#"}

\* C16: for every input string, parsable as a URL or not, normalizeUrl(u)
\* contains no query string and no fragment, and normalizing the result again
\* changes nothing.
C16_StripsEveryInput ==
  /\ normalized # NotRun => NoQueryNoFragment(normalized)
  /\ renormalized # NotRun => renormalized = normalized

\* C16 as amended: the result has no query string and no fragment whenever
\* the input parses as a URL; normalizing again changes nothing for every
\* input.
C16_StripsParsableIdempotentAll ==
  /\ (normalized # NotRun /\ URL(urlGiven).ok) => NoQueryNoFragment(normalized)
  /\ renormalized # NotRun => renormalized = normalized

\* a URL with a query, a fragment and a space to trim was normalized twice
C16_Witness ==
  /\ renormalized # NotRun
  /\ URL(urlGiven).ok /\ URL(urlGiven).hasQuery /\ URL(urlGiven).hasHash
  /\ urlGiven # trim(urlGiven)
  /\ normalized # urlGiven


(* ------------------- the matcher of findMatchingClickableElements ------- *)
\* An element's text is a sequence of characters, each a one-character
\* string; "rsquo" and "lsquo" stand for the two curly quotes.
MaxTextLen == 4

TextSymbols == {"o", "k", "O", "b", " ", ",", "'"}

\* the characters of \w that occur in texts
WordChars ==
  {"a", "b", "c", "d", "e", "f", "g", "h", "i", "k", "l", "m", "n", "o", "r",
   "s", "t", "v", "w", "y"}
    \cup {UpperCase[k] : k \in 1..Len(UpperCase)}
Quotes == {"'", "rsquo", "lsquo"}

\* const normalize = s => s.toLowerCase().replace(/[’‘']/g, "'")
\*                         .replace(/[^\w\s']/g, " ").trim()
unifyQuotes(s) == [i \in 1..Len(s) |-> IF s[i] \in Quotes THEN "'" ELSE s[i]]
keepWords(s) ==
  [i \in 1..Len(s) |-> IF s[i] \in WordChars \cup {" ", "'"} THEN s[i] ELSE " "]
normalize(s) == trim(keepWords(unifyQuotes(toLowerCase(s))))

\* txt.split(/\s+/): the empty string splits into one empty token
split(txt) == IF txt = << >> THEN << << >> >> ELSE splitNonEmpty(txt, " ")

\* w.localeCompare(t, undefined, { sensitivity: "accent" }) === 0
localeCompareEqual(w, t) == toLowerCase(w) = toLowerCase(t)

\* String.prototype.includes
includes(s, t) ==
  \E i \in 1..(Len(s) - Len(t) + 1) : SubSeq(s, i, i + Len(t) - 1) = t

\* the short rule with substring search in place of the token comparison
matchesShort_includes(txt, t) == includes(txt, t)

\* t.length <= 3: txt.split(/\s+/).some(w => w.localeCompare(t, ...) === 0)
matchesShort(txt, t) ==
  \E k \in 1..Len(split(txt)) : localeCompareEqual(split(txt)[k], t)

\* \b between s[i] and s[i+1] (i = 0 and i = Len(s) are the two ends)
wordBoundary(s, i) ==
  LET left == i >= 1 /\ i <= Len(s) /\ s[i] \in WordChars
      right == i + 1 >= 1 /\ i + 1 <= Len(s) /\ s[i + 1] \in WordChars
  IN left # right

\* the index of the first character of s after position e that is not
\* whitespace (Len(s) + 1 when there is none)
RECURSIVE skipSpaces(_, _)
skipSpaces(s, e) ==
  IF e + 1 <= Len(s) /\ s[e + 1] = " " THEN skipSpaces(s, e + 1) ELSE e + 1

\* the words of the term matched from position p on, joined by \s+: the
\* index of the last character matched, 0 when there is no match at p
RECURSIVE matchPieces(_, _, _)
matchPieces(s, pieces, p) ==
  LET w == Head(pieces)
      e == p + Len(w) - 1
  IN IF e > Len(s) \/ SubSeq(s, p, e) # w THEN 0
     ELSE IF Len(pieces) = 1 THEN e
     ELSE IF skipSpaces(s, e) = e + 1 \/ skipSpaces(s, e) > Len(s) THEN 0
     ELSE matchPieces(s, Tail(pieces), skipSpaces(s, e))

\* new RegExp(`\\b${t.replace(/\s+/g, "\\s+")}\\b`, "i").test(txt)
matchesPhrase(txt, t) ==
  LET pieces == splitNonEmpty(t, " ")
  IN \E p \in 1..Len(txt) :
       /\ wordBoundary(txt, p - 1)
       /\ matchPieces(toLowerCase(txt), pieces, p) > 0
       /\ wordBoundary(txt, matchPieces(toLowerCase(txt), pieces, p))

\* the callback of terms.some(...) for one term
matchesTerm(txt, searchTerm) ==
  LET t == trim(toLowerCase(searchTerm))
  IN IF Len(t) <= 3 THEN matchesShort(txt, t) ELSE matchesPhrase(txt, t)

\* what the loop body decides for one element and one term: no text, no match
matchedFor(textContent, searchTerm) ==
  LET text == trim(textContent)
  IN IF text = << >> THEN FALSE ELSE matchesTerm(normalize(text), searchTerm)

\* texts and terms tried
OkGotIt == <<"O", "K", ",", " ", "g", "o", "t", " ", "i", "t">>
BookmarkThis ==
  <<"b", "o", "o", "k", "m", "a", "r", "k", " ", "t", "h", "i", "s">>
Book == <<"b", "o", "o", "k">>
Texts == Strings(TextSymbols, MaxTextLen) \cup {OkGotIt, BookmarkThis, Book}
ok == <<"o", "k">>
Terms == {ok, <<"O", "k">>, <<"o">>, Book}

\* texts and terms for the phrase test: a two-word term over two letters, and
\* the configured "no thanks" (also "close", for the scripts below)
MaxPhraseLen == 6
PhraseSymbols == {"o", "k", "O", " ", "!"}
NoThanksBang == <<"N", "o", " ", "t", "h", "a", "n", "k", "s", "!">>
NoThanksgiving ==
  <<"n", "o", " ", "t", "h", "a", "n", "k", "s", "g", "i", "v", "i", "n", "g">>
PhraseTexts ==
  Strings(PhraseSymbols, MaxPhraseLen) \cup {NoThanksBang, NoThanksgiving}
close == <<"c", "l", "o", "s", "e">>
noThanks == <<"n", "o", " ", "t", "h", "a", "n", "k", "s">>
PhraseTerms == {<<"o", " ", "o", "k">>, noThanks}

\* the scripts with a matcher of their own: find-cancel-elements.js from its
\* line 188 on, and the click-cancel script in lines 1-187 of the same file,
\* whose test is a substring search (the integrated queue script's is the same)
MatchScripts == {"find-cancel-elements", "click-cancel"}

\* click-cancel: text.toLowerCase().includes(t), with t already lowercased
includesTerm(textContent, searchTerm) ==
  LET text == trim(textContent)
  IN IF text = << >> THEN FALSE
     ELSE includes(toLowerCase(text), toLowerCase(searchTerm))

\* the click-cancel script has no search term of 3 characters or fewer
MatchInit ==
  /\ matcher \in MatchScripts
  /\ \/ matcher = "find-cancel-elements" /\ elText \in Texts /\ term \in Terms
     \/ elText \in PhraseTexts /\ term \in PhraseTerms
  /\ matched = "none"
  /\ OutsideMatchAtRest

\* one element goes through the term test
FindMatching ==
  /\ matched = "none"
  /\ matched' = IF matcher = "find-cancel-elements"
                THEN (IF matchedFor(elText, term) THEN "true" ELSE "false")
                ELSE (IF includesTerm(elText, term) THEN "true" ELSE "false")
  /\ UNCHANGED <<matcher, elText, term, outsideMatch>>

MatchNext == FindMatching

MatchSpec == MatchInit /\ [][MatchNext]_vars

(* ------------------------------ C20 ------------------------------------ *)
\* a character that ends a word for the matcher: anything that is neither a
\* word character nor a quote
Delimiter(c) == c \notin WordChars \cup Quotes

\* the term stands in the text as a whole word: an occurrence, letter case
\* aside, with the start of the text or a delimiter before it and the end of
\* the text or a delimiter behind it
WholeWordIn(text, t) ==
  \E i \in 1..(Len(text) - Len(t) + 1) :
    /\ toLowerCase(SubSeq(text, i, i + Len(t) - 1)) = toLowerCase(t)
    /\ i = 1 \/ Delimiter(text[i - 1])
    /\ i + Len(t) - 1 = Len(text) \/ Delimiter(text[i + Len(t)])

\* C20: a search term of at most 3 characters matches an element's text
\* exactly when it stands in the text as a whole word, letter case aside; so
\* 'ok' matches 'OK, got it' and matches neither 'bookmark this' nor 'book'.
C20_ShortTermWholeWord ==
  (matched # "none" /\ Len(term) <= 3) =>
    /\ (matched = "true") <=> WholeWordIn(elText, term)
    /\ (term = ok /\ elText = OkGotIt) => matched = "true"
    /\ (term = ok /\ elText \in {BookmarkThis, Book}) => matched = "false"

C20_Witness ==
  /\ term = ok
  /\ elText = OkGotIt
  /\ matched = "true"


(* ------------------------------ clickPopups ---------------------------- *)
\* elements in one document
MaxElements == 3

\* texts of elements
Close == <<"C", "l", "o", "s", "e">>
CLOSE == <<"C", "L", "O", "S", "E">>
NoThanksLater ==
  <<"N", "o", " ", "t", "h", "a", "n", "k", "s", ",", " ", "l", "a", "t", "e",
    "r">>
WatchLater == <<"W", "a", "t", "c", "h", " ", "L", "a", "t", "e", "r">>
MarketsCloseLower ==
  <<"M", "a", "r", "k", "e", "t", "s", " ", "c", "l", "o", "s", "e", " ", "l",
    "o", "w", "e", "r", " ", "t", "o", "d", "a", "y">>
PopTexts == {Close, CLOSE, NoThanksLater, WatchLater, MarketsCloseLower, Book}

\* three of the configured search terms, one of the blacklisted phrases
later == <<"L", "a", "t", "e", "r">>
SEARCH_TERMS == {close, noThanks, later}
BLACKLIST_TERMS == {<<"W", "a", "t", "c", "h", " ", "l", "a", "t", "e", "r">>}

\* the elements a document is made of: tag, onclick attribute, textContent,
\* computed display
ElementKinds ==
  {k \in [tag : {"button", "a", "span"}, onclick : BOOLEAN, text : PopTexts,
          display : {"block", "none"}] : k.onclick => k.tag = "span"}

isClickable(el) == el.tag \in {"button", "a", "input"} \/ el.onclick

\* bad.toLowerCase() compared without lowering the text
isBlacklisted_exact(text) ==
  \E bad \in BLACKLIST_TERMS : includes(text, toLowerCase(bad))

\* blacklistTerms.some(bad => lowerText.includes(bad.toLowerCase()))
isBlacklisted(text) ==
  \E bad \in BLACKLIST_TERMS : includes(toLowerCase(text), toLowerCase(bad))

\* results.push({ tag, text, x, y }) for the element at place i of the
\* document: getBoundingClientRect of an element that is not rendered is all
\* zeros, that of a rendered one has its centre at the element's own place
pushed(doc, i) ==
  [tag |-> doc[i].tag, text |-> trim(doc[i].text),
   x |-> IF doc[i].display = "none" THEN 0 ELSE i,
   y |-> IF doc[i].display = "none" THEN 0 ELSE 1]

\* the loop body of findMatchingClickableElements: whether the element is
\* pushed.  find-cancel-elements skips anchors of more than 20 characters,
\* tests with matchesTerm and skips blacklisted texts; the integrated queue
\* script only tests for a substring
kept(s, el) ==
  IF s = "find-cancel-elements"
  THEN /\ isClickable(el)
       /\ ~(el.tag = "a" /\ Len(trim(el.text)) > 20)
       /\ \E t \in SEARCH_TERMS : matchedFor(el.text, t)
       /\ ~isBlacklisted(trim(el.text))
  ELSE /\ isClickable(el)
       /\ \E t \in SEARCH_TERMS : includesTerm(el.text, t)

\* findAllMatchingElements over the one frame of the page
RECURSIVE findAllFrom(_, _, _)
findAllFrom(s, doc, i) ==
  IF i > Len(doc) THEN << >>
  ELSE (IF kept(s, doc[i]) THEN <<pushed(doc, i)>> ELSE << >>)
         \o findAllFrom(s, doc, i + 1)
findAllMatchingElements(s, doc) == findAllFrom(s, doc, 1)

\* const key = (el.text || "").trim().toLowerCase(), without the lowering
textKey_exact(el) == trim(el.text)

\* const key = (el.text || "").trim().toLowerCase()
textKey(el) == toLowerCase(trim(el.text))

\* for (const el of matches) if (!seen.has(key) && key) { seen.add(key);
\* unique.push(el) }
RECURSIVE removeDuplicates(_, _)
removeDuplicates(els, seen) ==
  IF els = << >> THEN << >>
  ELSE IF textKey(Head(els)) \notin seen /\ textKey(Head(els)) # << >>
  THEN <<Head(els)>>
         \o removeDuplicates(Tail(els), seen \cup {textKey(Head(els))})
  ELSE removeDuplicates(Tail(els), seen)

\* candidates.find(b => (b.innerText || b.value || "").trim().toLowerCase()
\* === text.toLowerCase()) over querySelectorAll("button, a, input,
\* div[role='button']"): the first such element of the document, as the
\* record the matcher would push for it; none as << >>
target(doc, text) ==
  LET hits == {i \in 1..Len(doc) :
                 /\ doc[i].tag \in {"button", "a", "input"}
                 /\ toLowerCase(trim(doc[i].text)) = toLowerCase(text)}
  IN IF hits = {} THEN << >> ELSE <<pushed(doc, Min(hits))>>

\* clickElements of find-cancel-elements: an anchor of more than 15
\* characters is skipped, any other element has the click dispatched to the
\* target found by its text; the elements that received a click, in order
RECURSIVE dispatchClicks(_, _)
dispatchClicks(doc, els) ==
  IF els = << >> THEN << >>
  ELSE IF Head(els).tag = "a" /\ Len(Head(els).text) > 15
  THEN dispatchClicks(doc, Tail(els))
  ELSE target(doc, Head(els).text) \o dispatchClicks(doc, Tail(els))

\* window.addEventListener(type, e => {...}, true): the arrow function is a
\* new function object, named here by its place in the list
addEventListener(ls, type) == Append(ls, [type |-> type, fn |-> Len(ls) + 1])

\* window.removeEventListener(type, fn, true): takes off the listener of
\* that type with that very function
removeEventListener(ls, type, fn) ==
  SelectSeq(ls, LAMBDA l : ~(l.type = type /\ l.fn = fn))

\* the listeners on window after clickElements of find-cancel-elements has
\* handled the elements: for each one not skipped, a click and a beforeunload
\* listener are added, and removeEventListener("click", () => {}, true) is
\* called with one more new function
RECURSIVE listenersAfter(_, _)
listenersAfter(ls, els) ==
  IF els = << >> THEN ls
  ELSE IF Head(els).tag = "a" /\ Len(Head(els).text) > 15
  THEN listenersAfter(ls, Tail(els))
  ELSE LET added == addEventListener(addEventListener(ls, "click"),
                                      "beforeunload")
       IN listenersAfter(removeEventListener(added, "click", Len(added) + 1),
                         Tail(els))

\* clickElements of the integrated queue script: simulateMouseClick at the
\* coordinates of every element
mouseClicks(els) == els

\* a page is loaded in one of the scripts and clickPopups is about to run
PopInit ==
  /\ popScript \in PersistentQueueScripts
  /\ \E n \in 0..MaxElements : page \in [1..n -> ElementKinds]
  /\ listeners = << >>
  /\ matches = << >>
  /\ unique = << >>
  /\ clicked = << >>
  /\ popAt = "off"
  /\ OutsidePopAtRest

\* const matches = await findAllMatchingElements(page, SEARCH_TERMS);
\* if (matches.length === 0) return
FindAllMatchingElements ==
  /\ popAt = "off"
  /\ matches' = findAllMatchingElements(popScript, page)
  /\ popAt' = IF matches' = << >> THEN "done"
              ELSE IF popScript = "find-cancel-elements" THEN "unique"
              ELSE "click"
  /\ UNCHANGED <<popScript, page, listeners, unique, clicked, outsidePop>>

\* the loop that fills unique; const first = unique[0]; if (!first) return
RemoveDuplicates ==
  /\ popAt = "unique"
  /\ unique' = removeDuplicates(matches, {})
  /\ popAt' = IF unique' = << >> THEN "done" ELSE "click"
  /\ UNCHANGED <<popScript, page, listeners, matches, clicked, outsidePop>>

\* await clickElements(page, [first]) and, in the integrated queue script,
\* await clickElements(page, matches)
ClickElements ==
  /\ popAt = "click"
  /\ clicked' = IF popScript = "find-cancel-elements"
                THEN dispatchClicks(page, <<unique[1]>>)
                ELSE mouseClicks(matches)
  /\ listeners' = IF popScript = "find-cancel-elements"
                  THEN listenersAfter(listeners, <<unique[1]>>)
                  ELSE listeners
  /\ popAt' = "done"
  /\ UNCHANGED <<popScript, page, matches, unique, outsidePop>>

PopNext == FindAllMatchingElements \/ RemoveDuplicates \/ ClickElements

PopSpec == PopInit /\ [][PopNext]_vars

(* ------------------------------ C18 ------------------------------------ *)
\* C18: a pass of clickPopups over a non-empty match set clicks exactly one
\* element, the first in discovery order after the removal of duplicates by
\* text, and no other matched element.
C18_SingleShot ==
  (popAt = "done" /\ matches # << >>) =>
    clicked = <<removeDuplicates(matches, {})[1]>>

(* ------------------------------ C19 ------------------------------------ *)
\* the loop that fills unique has run
UniqueBuilt ==
  /\ popScript = "find-cancel-elements"
  /\ matches # << >>
  /\ popAt \in {"click", "done"}

\* the places in the match list that hold the first element with their
\* trimmed lowercase text
FirstPlaces ==
  {i \in 1..Len(matches) :
     /\ toLowerCase(trim(matches[i].text)) # << >>
     /\ \A j \in 1..(i - 1) :
          toLowerCase(trim(matches[j].text)) # toLowerCase(trim(matches[i].text))}

\* C19: the unique list holds, for each distinct trimmed lowercase text,
\* exactly the first element in discovery order with that text, in discovery
\* order; later elements with the same text are dropped whatever their
\* coordinates.
C19_FirstPerTextInOrder ==
  UniqueBuilt =>
    /\ Len(unique) = Cardinality(FirstPlaces)
    /\ \A k \in 1..Len(unique) :
         \E i \in FirstPlaces :
           /\ Cardinality({j \in FirstPlaces : j <= i}) = k
           /\ unique[k] = matches[i]

C19_Witness ==
  /\ UniqueBuilt
  /\ Len(unique) = 2
  /\ \E i, j \in 1..Len(matches) :
       /\ i < j
       /\ matches[i].text # matches[j].text
       /\ toLowerCase(matches[i].text) = toLowerCase(matches[j].text)
       /\ matches[i].x # matches[j].x
       /\ unique[1] = matches[i]


(* ------------------------------ C21 ------------------------------------ *)
\* the ends of the occurrences that start at p: the words ws in s from p on,
\* each two of them separated by one or more delimiters
RECURSIVE PhraseEnds(_, _, _)
PhraseEnds(s, ws, p) ==
  LET e == p + Len(Head(ws)) - 1
  IN IF e > Len(s) \/ SubSeq(s, p, e) # Head(ws) THEN {}
     ELSE IF Len(ws) = 1 THEN {e}
     ELSE UNION {PhraseEnds(s, Tail(ws), q) :
                   q \in {r \in (e + 2)..Len(s) :
                            \A d \in (e + 1)..(r - 1) : Delimiter(s[d])}}

\* the term stands in the text as a phrase bounded by non-word characters
WordBoundedPhraseIn(text, t) ==
  \E p \in 1..Len(text) :
    \E e \in PhraseEnds(toLowerCase(text), splitNonEmpty(toLowerCase(t), " "), p) :
      /\ p = 1 \/ text[p - 1] \notin WordChars
      /\ e = Len(text) \/ text[e + 1] \notin WordChars

\* C21: a search term of more than 3 characters matches an element's text
\* exactly when it stands in the text as a word-bounded phrase, whatever the
\* whitespace between its words; so 'no thanks' matches 'No thanks!' and does
\* not match 'no thanksgiving'.
C21_PhraseWordBounded ==
  (matched # "none" /\ Len(term) > 3) =>
    /\ (matched = "true") <=> WordBoundedPhraseIn(elText, term)
    /\ (term = noThanks /\ elText = NoThanksBang) => matched = "true"
    /\ (term = noThanks /\ elText = NoThanksgiving) => matched = "false"


(* ------------------------------ C22 ------------------------------------ *)
\* the text holds a blacklisted phrase, letter case aside
HoldsBlacklisted(text) ==
  \E bad \in BLACKLIST_TERMS :
    \E i \in 1..(Len(text) - Len(bad) + 1) :
      toLowerCase(SubSeq(text, i, i + Len(bad) - 1)) = toLowerCase(bad)

\* the text matches one of the search terms, by the rule for its length
MatchesATerm(text) ==
  \E t \in SEARCH_TERMS :
    IF Len(t) <= 3 THEN WholeWordIn(text, t) ELSE WordBoundedPhraseIn(text, t)

\* the texts that hold a blacklisted phrase
BlacklistedTexts == {text \in PopTexts : HoldsBlacklisted(text)}

\* the clickable elements which match a term, hold no blacklisted phrase and
\* are no anchor of more than 20 characters
EligibleKinds ==
  {k : k \in {el \in ElementKinds :
                /\ el.tag \in {"button", "a"} \/ el.onclick
                /\ MatchesATerm(el.text)
                /\ el.text \notin BlacklistedTexts
                /\ ~(el.tag = "a" /\ Len(el.text) > 20)}}

\* the places of the document that hold such an element
Eligible == {i \in 1..Len(page) : page[i] \in EligibleKinds}

\* the scan of find-cancel-elements has run
Scanned == popScript = "find-cancel-elements" /\ popAt # "off"

\* C22: no element the matcher returns has a text that holds a blacklisted
\* phrase, letter case aside, whatever terms it matches; and every clickable
\* element that matches a term, holds no blacklisted phrase and passes the
\* anchor guard is returned (in document order).
C22_BlacklistPrecedence ==
  Scanned =>
    /\ \A k \in 1..Len(matches) : matches[k].text \notin BlacklistedTexts
    /\ Len(matches) = Cardinality(Eligible)
    /\ \A k \in 1..Len(matches) :
         \E i \in Eligible :
           /\ Cardinality({j \in Eligible : j <= i}) = k
           /\ matches[k].tag = page[i].tag
           /\ matches[k].text = page[i].text

C22_Witness ==
  /\ Scanned
  /\ Len(matches) = 1
  /\ \E i \in 1..Len(page) :
       /\ page[i].text = WatchLater
       /\ page[i].tag = "button"
       /\ MatchesATerm(page[i].text)
       /\ i < Min(Eligible)

(* ------------------------------ C23 ------------------------------------ *)
\* C23: an anchor whose trimmed text is longer than the threshold is never in
\* the match set and never clicked, and an anchor the matcher retains is
\* clicked when it is the one handed to clickElements: matcher and executor
\* use the same threshold.
C23_AnchorGuardSameThreshold ==
  (popScript = "find-cancel-elements" /\ popAt = "done") =>
    /\ \A k \in 1..Len(matches) :
         ~(matches[k].tag = "a" /\ Len(matches[k].text) > 20)
    /\ \A k \in 1..Len(clicked) :
         ~(clicked[k].tag = "a" /\ Len(clicked[k].text) > 20)
    /\ (unique # << >> /\ unique[1].tag = "a") => clicked # << >>

(* ------------------------------ C24 ------------------------------------ *)
\* C24: for a document with one visible clickable element whose text matches
\* a term and one hidden (display:none) such element, the match set has
\* exactly one entry, the visible element, with coordinates in the viewport.
C24_OnlyVisibleReturned ==
  ( /\ Scanned
    /\ Cardinality({i \in Eligible : page[i].display = "none"}) = 1
    /\ Cardinality({i \in Eligible : page[i].display # "none"}) = 1 ) =>
      /\ Len(matches) = 1
      /\ matches[1].x > 0
      /\ page[matches[1].x].display # "none"

(* ------------------------------ C30 ------------------------------------ *)
\* C30: when clickElements has handled its elements, every click and
\* beforeunload interceptor it installed is removed again: as many listeners
\* are installed after the pass as before it.
C30_InterceptorsRemoved ==
  popAt = "done" => Len(listeners) = 0


(* ------------------- one worker on a table left by an earlier run ------ *)
\* queue.db as an earlier run left it: rows still 'pending', and rows the
\* earlier worker (worker 0 in handed) had claimed when it was killed, still
\* 'processing'
LeftTable(u, O) ==
  [i \in DOMAIN u |-> IF i \in O THEN claimUpdate(<<NewRow(u[i], 1)>>, 1, 1)[1]
                      ELSE NewRow(u[i], 1)]
RestartTables ==
  UNION {{LeftTable(u, O) :
            u \in {v \in [1..n -> Urls] : \A i, j \in 1..n : i # j => v[i] # v[j]},
            O \in SUBSET (1..n)} : n \in 1..MaxRows}

RestartInit ==
  /\ queue \in RestartTables
  /\ handed = {<<0, id>> : id \in WithStatus(queue, "processing")}
  /\ cols = {}
  /\ clock = 1
  /\ lastAdd = [url |-> NullText, ret |-> FALSE]
  /\ script = [w \in Workers |-> "none"]
  /\ args = [w \in Workers |-> NoArgs]
  /\ pc = [w \in Workers |-> "off"]
  /\ job = [w \in Workers |-> NoJob]
  /\ fault = [w \in Workers |-> "none"]
  /\ result = [w \in Workers |-> NoResult]
  /\ handled = [w \in Workers |-> 0]
  /\ NonQueueAtRest

\* the one worker process that is started, and time
RestartNext ==
  \/ Tick
  \/ StartProcessQueue(1)
  \/ GetNextJobSelect(1)
  \/ GetNextJobUpdate(1)
  \/ RunArchive(1)
  \/ UpdateJobStatus(1)
  \/ StartArchiver(1)
  \/ LoopHead(1)
  \/ ClaimPending(1)
  \/ ArchiveOne(1)
  \/ MarkResult(1)

RestartSpec == RestartInit /\ [][RestartNext]_vars

(* ------------------------------ C25 ------------------------------------ *)
\* the rows that were 'processing' when the worker started
Orphans == {id \in Ids(queue) : <<0, id>> \in handed}

\* C25: a row that is already 'processing' when a worker starts is never
\* selected, archived or changed by that worker.
C25_OrphansLeftAlone ==
  \A id \in Orphans :
    /\ <<1, id>> \notin handed
    /\ job[1].id # id
    /\ queue[id] = claimUpdate(<<NewRow(queue[id].url, 1)>>, 1, 1)[1]

(* ------------------------------ C26 ------------------------------------ *)
\* C26 (what it says of the table at exit and of the limit): when a single
\* worker started without a limit (and, for puppeteer-archiver, in its
\* default mode) has exited, every job that was pending at its start is
\* completed or failed; with --limit N the worker handles at most N jobs.
C26_ExitLeavesNothingOpen ==
  /\ ( /\ pc[1] = "exited"
       /\ args[1].limit = NULL
       /\ args[1].mode = "auto"
       /\ ~args[1].noClaim ) =>
       \A id \in Ids(queue) \ Orphans : queue[id].status \in {"completed", "failed"}
  /\ args[1].limit # NULL => handled[1] <= args[1].limit

(* ------------------------------ C28 ------------------------------------ *)
\* C28: after any sequence of queue and worker operations getStats gives, for
\* pending, processing, completed and failed, the number of rows in that
\* status, and a total that is the sum of the four.
C28_StatsAddUp ==
  /\ \A s \in {"pending", "processing", "completed", "failed"} :
       getStats(queue)[s] = Cardinality({id \in Ids(queue) : queue[id].status = s})
  /\ getStats(queue).total =
       getStats(queue).pending + getStats(queue).processing
         + getStats(queue).completed + getStats(queue).failed

(* ------------------------------ submit with whitespace ------------------ *)
\* urls as the caller may hand them to addJob: with or without a space
\* before and behind
SubmitUrls ==
  {before \o <<Scheme, host>> \o behind :
     before \in {<< >>, <<" ">>}, host \in {"a", "news"},
     behind \in {<< >>, <<" ">>}}

SubmitInit == QueueAtRest /\ NonQueueAtRest

\* queue.addJob(url) with such a url
AddJobText ==
  \E url \in SubmitUrls :
    /\ Len(addJob(queue, url, clock).queue) <= MaxRows
    /\ queue' = addJob(queue, url, clock).queue
    /\ lastAdd' = [url |-> url, ret |-> addJob(queue, url, clock).ret]
    /\ UNCHANGED <<cols, clock, workerVars>>
    /\ UNCHANGED nonQueueVars

SubmitNext == Tick \/ AddJobText

SubmitSpec == SubmitInit /\ [][SubmitNext]_vars

(* ------------------------------ C29 ------------------------------------ *)
\* C29: submit trims its argument before the duplicate check: of two
\* submissions whose urls differ only in leading or trailing whitespace the
\* second is rejected, and one row is stored.
C29_TrimmedBeforeDuplicateCheck ==
  \A i, j \in Ids(queue) : i # j => trim(queue[i].url) # trim(queue[j].url)

(* ------------------------------ C27 ------------------------------------ *)
\* the steps of the running script that write the raw HTML snapshot
RawSteps == {i \in 1..Len(Pipeline(runScript)) : Pipeline(runScript)[i].kind = "rawHtml"}
\* page.screenshot or page.pdf threw in this run
CaptureThrew == \E i \in raised : Pipeline(runScript)[i].kind \in {"screenshot", "pdf"}

MetaWrites == {i \in 1..Len(trail) : trail[i].kind = "meta" /\ i \notin raised}

\* C38: in every state of a saveArchive run in which meta.json of this run
\* exists, page_raw.html, page.html, screenshot.png and page.pdf of this run
\* have been written, and the run writes meta.json at most once.
C38_MetaWrittenLast ==
  (runScript \in PersistentQueueScripts /\ runNo > 0) =>
    /\ Written("meta.json") =>
         /\ Written("page_raw.html")
         /\ Written("page.html")
         /\ Written("screenshot.png")
         /\ Written("page.pdf")
    /\ Cardinality(MetaWrites) <= 1

\* the same for the artifacts the script's own saveArchive produces
MetaAfterOwnArtifacts ==
  (runScript \in PersistentQueueScripts /\ runNo > 0) =>
    /\ Written("meta.json") =>
         \A i \in 1..Len(Pipeline(runScript)) :
           Pipeline(runScript)[i].file # "" => Written(Pipeline(runScript)[i].file)
    /\ Cardinality(MetaWrites) <= 1

(* ------------------------------ C39 ------------------------------------ *)
\* the queue accepts both urls: addJob of the second one after the first
BothAccepted(u1, u2) ==
  /\ addJob(<< >>, u1, 1).ret
  /\ addJob(addJob(<< >>, u1, 1).queue, u2, 1).ret

\* C39: when a run has completed the archive of one url, a later run for
\* another url that the queue accepts beside it writes no file into the
\* directory of that archive.
C39_CompletedArchiveKept ==
  \A i, j \in 1..Len(runsLog) :
    (/\ i < j
     /\ runsLog[i].ok = "true"
     /\ BothAccepted(runsLog[i].url, runsLog[j].url)
     /\ runsLog[i].outdir \in DOMAIN archives)
      => \A f \in DOMAIN archives[runsLog[i].outdir] :
           archives[runsLog[i].outdir][f].run # j

\* the same for the runs of find-cancel-elements alone
CompletedArchiveKeptByFindCancel ==
  runScript = "find-cancel-elements" => C39_CompletedArchiveKept

(* ------------------- dismissOneSignalSlidedown ------------------------- *)
\* elements with id "onesignal-slidedown-dialog" the page creates in all
MaxDialogs == 2

\* document.getElementById: the first element with the id, NULL for none
getElementById(els) == IF els = {} THEN NULL ELSE Min(els)

\* the routine is called on a page: the container is in the document or not,
\* so is the cancel button, and the page's click handler removes the
\* container or ignores the click
SlidedownInit ==
  \E ds \in {{}, {1}}, c \in BOOLEAN, h \in {"removes", "ignores"} :
    slidedown = [at |-> "called", dialogs |-> ds, made |-> Cardinality(ds),
                 cancel |-> c, handler |-> h, dialog |-> NULL, clicks |-> 0,
                 style |-> FALSE, result |-> "none"]

\* if (!dialog) return "absent"
SlidedownAbsent ==
  /\ slidedown.at = "called"
  /\ getElementById(slidedown.dialogs) = NULL
  /\ slidedown' = [slidedown EXCEPT !.at = "returned", !.result = "absent"]
  /\ UNCHANGED outsideSlidedown

\* the container is there: doClick(cancel) when there is a cancel button,
\* then the routine waits one second
SlidedownClick ==
  /\ slidedown.at = "called"
  /\ getElementById(slidedown.dialogs) # NULL
  /\ slidedown' = [slidedown EXCEPT
                     !.at = "wait",
                     !.dialog = getElementById(slidedown.dialogs),
                     !.clicks = IF slidedown.cancel THEN 1 ELSE 0]
  /\ UNCHANGED outsideSlidedown

\* during the wait the page's handler of the click removes the container
PageRemovesDialog ==
  /\ slidedown.at = "wait"
  /\ slidedown.clicks > 0 /\ slidedown.handler = "removes"
  /\ slidedown.dialog \in slidedown.dialogs
  /\ slidedown' = [slidedown EXCEPT !.dialogs = @ \ {slidedown.dialog}]
  /\ UNCHANGED outsideSlidedown

\* during the wait the page creates the container again (a new element)
PageCreatesDialog ==
  /\ slidedown.at = "wait"
  /\ slidedown.made < MaxDialogs
  /\ slidedown' = [slidedown EXCEPT !.dialogs = @ \cup {slidedown.made + 1},
                                     !.made = @ + 1]
  /\ UNCHANGED outsideSlidedown

\* dialog.remove() only, without the style rule
forceRemove_detachOnly(s) ==
  [s EXCEPT !.dialogs = @ \ {s.dialog}, !.result = "removed"]

\* dialog.remove(); document.head.appendChild(style); return "removed"
forceRemove(s) ==
  [s EXCEPT !.dialogs = @ \ {s.dialog}, !.style = TRUE, !.result = "removed"]

\* after the wait: stillVisible = !!document.getElementById(...)
SlidedownAfterWait ==
  /\ slidedown.at = "wait"
  /\ slidedown' =
       [(IF getElementById(slidedown.dialogs) = NULL
           THEN [slidedown EXCEPT !.result = "clicked"]
           ELSE forceRemove(slidedown)) EXCEPT !.at = "returned"]
  /\ UNCHANGED outsideSlidedown


MaxFrames == 2

\* what the selector query of the main document or of the shadow roots
\* does: it rejects, finds nothing that can be clicked, or safeClick succeeds
QueryKinds == {"throws", "none", "clicks"}
\* a nested frame: detached, or its search finds no button, rejects,
\* clicks within the budget, or is still running when the 3 s are over
FrameKinds == {"detached", "none", "throws", "clicks", "slow"}

SeqsUpTo(S, n) == UNION {[1..k -> S] : k \in 0..n}

\* a click made by safeClick(page, handle, context), and the frame it is in
Click(context, k) == [context |-> context, frame |-> k]

\* the sweep is called on a page
SweepInit ==
  \E m \in QueryKinds, sh \in QueryKinds, fs \in SeqsUpTo(FrameKinds, MaxFrames) :
    sweep = [at |-> "main", main |-> m, shadow |-> sh, frames |-> fs, i |-> 1,
             searched |-> << >>, pending |-> {}, clicks |-> << >>,
             result |-> "none"]

\* const candidates = await page.$$(...), outside every try; then the loop
\* over the candidates, each inside its own try
SweepMain ==
  /\ sweep.at = "main"
  /\ sweep' =
       CASE sweep.main = "throws" -> [sweep EXCEPT !.at = "thrown"]
         [] sweep.main = "clicks" ->
              [sweep EXCEPT !.at = "returned", !.result = "true",
                            !.clicks = Append(@, Click("main", 0))]
         [] OTHER -> [sweep EXCEPT !.at = "shadow"]
  /\ UNCHANGED outsideSweep

\* the shadow roots, inside one try whose catch warns
SweepShadow ==
  /\ sweep.at = "shadow"
  /\ sweep' =
       IF sweep.shadow = "clicks"
         THEN [sweep EXCEPT !.at = "returned", !.result = "true",
                            !.clicks = Append(@, Click("shadow-root", 0))]
         ELSE [sweep EXCEPT !.at = "frames"]
  /\ UNCHANGED outsideSweep

\* the frame the loop is at
frame == sweep.frames[sweep.i]
AtFrame == sweep.at = "frames" /\ sweep.i <= Len(sweep.frames)

\* if (... || frame.isDetached?.()) continue
FrameSkipped ==
  /\ AtFrame /\ frame = "detached"
  /\ sweep' = [sweep EXCEPT !.i = @ + 1]
  /\ UNCHANGED outsideSweep

\* the search settles first: true after safeClick, false without a button,
\* or a rejection that the catch of the loop body swallows
FrameSearched ==
  /\ AtFrame /\ frame \in {"none", "throws", "clicks"}
  /\ sweep' =
       IF frame = "clicks"
         THEN [sweep EXCEPT !.at = "returned", !.result = "true",
                            !.searched = Append(@, sweep.i),
                            !.clicks = Append(@, Click("iframe", sweep.i))]
         ELSE [sweep EXCEPT !.i = @ + 1, !.searched = Append(@, sweep.i)]
  /\ UNCHANGED outsideSweep

\* sleep(3000) settles first: the race rejects with "frame timeout", the
\* catch goes on to the next frame; the search is not cancelled
FrameTimeout ==
  /\ AtFrame /\ frame = "slow"
  /\ sweep' = [sweep EXCEPT !.i = @ + 1, !.searched = Append(@, sweep.i),
                            !.pending = @ \cup {sweep.i}]
  /\ UNCHANGED outsideSweep

\* a search that lost its race finds the button and runs safeClick
PendingSearchClicks ==
  /\ sweep.at \in {"frames", "returned"}
  /\ \E j \in sweep.pending :
       sweep' = [sweep EXCEPT !.pending = @ \ {j}, !.clicks = Append(@, Click("iframe", j))]
  /\ UNCHANGED outsideSweep

\* a search that lost its race ends without a click
PendingSearchEnds ==
  /\ sweep.at \in {"frames", "returned"}
  /\ \E j \in sweep.pending : sweep' = [sweep EXCEPT !.pending = @ \ {j}]
  /\ UNCHANGED outsideSweep

\* after the last frame: return false
SweepReturnsFalse ==
  /\ sweep.at = "frames" /\ sweep.i > Len(sweep.frames)
  /\ sweep' = [sweep EXCEPT !.at = "returned", !.result = "false"]
  /\ UNCHANGED outsideSweep


(* ------------------------------ C32 ------------------------------------ *)
\* the frames that are not detached, in the order of page.frames()
Attached(fs) == SelectSeq([k \in 1..Len(fs) |-> k], LAMBDA k : fs[k] # "detached")

\* C32: the sweep never throws; a frame whose search rejects or exceeds its
\* budget is skipped and the attached frames after it are searched in order;
\* the sweep returns true right after its first successful click and false
\* when none of its searches clicked within its budget.
C32_SweepAlwaysReturns ==
  /\ sweep.at # "thrown"
  /\ sweep.at \in {"frames", "returned"} =>
       \E n \in 0..Len(Attached(sweep.frames)) :
         sweep.searched = SubSeq(Attached(sweep.frames), 1, n)
  /\ (sweep.at = "returned" /\ sweep.result = "false") =>
       /\ sweep.searched = Attached(sweep.frames)
       /\ \A k \in 1..Len(sweep.frames) : sweep.frames[k] # "clicks"
  /\ (sweep.at = "returned" /\ sweep.result = "true") =>
       \/ sweep.main = "clicks"
       \/ sweep.shadow = "clicks"
       \/ sweep.searched # << >> /\ sweep.frames[sweep.searched[Len(sweep.searched)]] = "clicks"

\* the frame part of C32 alone
FramesSkippedInOrder ==
  sweep.at \in {"frames", "returned"} =>
    \E n \in 0..Len(Attached(sweep.frames)) :
      sweep.searched = SubSeq(Attached(sweep.frames), 1, n)

(* ------------------------------ C33 ------------------------------------ *)
\* C33: one invocation of the sweep clicks at most once: a search that was
\* abandoned by its timeout performs no click afterwards.
C33_AtMostOneClick ==
  sweep.at # "off" => Len(sweep.clicks) <= 1

(* ---------------------- clickExpandableContent ------------------------- *)
\* <p> elements of the article at the start
MaxParagraphs == 2
\* calls of the routine on one page (saveArchive and runArchive both call it)
MaxCalls == 2

\* the routine is called on a page: the paragraphs of the article, whether a
\* visible expand trigger is there; window.__pCount is undefined (falsy, as 0)
ExpandInit ==
  \E n \in 0..MaxParagraphs, t \in BOOLEAN :
    expand = [at |-> "called", paragraphs |-> n, trigger |-> t, pCount |-> 0,
              before |-> n, calls |-> 1, verdict |-> "none"]

\* no trigger: if (!clicked) return
ExpandNoTrigger ==
  /\ expand.at = "called"
  /\ ~expand.trigger
  /\ expand' = [expand EXCEPT !.at = "returned", !.verdict = "none"]
  /\ UNCHANGED outsideExpand

\* the trigger is clicked; within the one-second sleep the page adds k
\* paragraphs and keeps or drops the trigger
ExpandClick ==
  /\ expand.at = "called"
  /\ expand.trigger
  /\ \E k \in 0..1, t \in BOOLEAN :
       expand' = [expand EXCEPT !.at = "verify", !.before = expand.paragraphs,
                                !.paragraphs = @ + k, !.trigger = t]
  /\ UNCHANGED outsideExpand

\* if (!window.__pCount) window.__pCount = p.length;
\* return p.length > window.__pCount
verify(e) ==
  LET pCount == IF e.pCount = 0 THEN e.paragraphs ELSE e.pCount
  IN [e EXCEPT !.pCount = pCount,
               !.verdict = IF e.paragraphs > pCount THEN "expanded" ELSE "not detected"]

ExpandVerify ==
  /\ expand.at = "verify"
  /\ expand' = [verify(expand) EXCEPT !.at = "returned"]
  /\ UNCHANGED outsideExpand

\* the routine is called again on the same page
ExpandAgain ==
  /\ expand.at = "returned"
  /\ expand.calls < MaxCalls
  /\ expand' = [expand EXCEPT !.at = "called", !.calls = @ + 1, !.verdict = "none"]
  /\ UNCHANGED outsideExpand

(* ------------------------------ C34 ------------------------------------ *)
\* C34: after a click on an expand trigger the routine reports 'expanded'
\* exactly when the article has more paragraphs after the click than it had
\* before the click.
C34_ExpandedIffMoreParagraphs ==
  (expand.at = "returned" /\ expand.verdict # "none") =>
    (expand.verdict = "expanded" <=> expand.paragraphs > expand.before)

(* ----------------------- triggerLazyLoadScroll ------------------------- *)
\* document.body.scrollHeight and window.innerHeight, in pixels
MaxHeight == 3
MaxViewport == 2

\* the routine is called: totalHeight and viewport are read once; the loop
\* variable y goes in steps of viewport / 2 and is kept here as 2 * y
ScrollInit ==
  \E h \in 0..MaxHeight, v \in 0..MaxViewport :
    scroll = [at |-> "scrolling", totalHeight |-> h, viewport |-> v,
              height |-> h, y2 |-> 0, scrolledTo |-> NULL - 1]

\* y < totalHeight: window.scrollTo(0, y), then the 300 ms timer is set
ScrollTo ==
  /\ scroll.at = "scrolling"
  /\ scroll.y2 < 2 * scroll.totalHeight
  /\ scroll' = [scroll EXCEPT !.at = "sleeping", !.scrolledTo = scroll.y2]
  /\ UNCHANGED outsideScroll

\* the timer fires: y += viewport / 2, back to the loop test
ScrollSleep ==
  /\ scroll.at = "sleeping"
  /\ scroll' = [scroll EXCEPT !.at = "scrolling", !.y2 = @ + scroll.viewport]
  /\ UNCHANGED outsideScroll

\* lazy content arrives while the loop sleeps: the document grows
PageGrows ==
  /\ scroll.at = "sleeping"
  /\ scroll.height < MaxHeight
  /\ scroll' = [scroll EXCEPT !.height = @ + 1]
  /\ UNCHANGED outsideScroll

\* the loop has ended: window.scrollTo(0, 0)
ScrollReturn ==
  /\ scroll.at = "scrolling"
  /\ scroll.y2 >= 2 * scroll.totalHeight
  /\ scroll' = [scroll EXCEPT !.at = "returned", !.scrolledTo = 0]
  /\ UNCHANGED outsideScroll

(* ------------------------------ C35 ------------------------------------ *)
\* the routine is in its loop
Scrolling == scroll.at \in {"scrolling", "sleeping"}

\* C35: a call of triggerLazyLoadScroll eventually returns, whatever the
\* document height and the viewport height are.
C35_ScrollTerminates ==
  Scrolling ~> (scroll.at = "returned")

\* the same with a viewport that has a height
ScrollTerminatesWithViewport ==
  (Scrolling /\ scroll.viewport > 0) ~> (scroll.at = "returned")

\* the offsets scrolled to are 0, v/2, v, ... below the height read at the
\* start, and the page is at the top when the routine has returned
ScrollsDownThenTop ==
  /\ Scrolling => scroll.scrolledTo < 2 * scroll.totalHeight
  /\ scroll.at = "sleeping" => scroll.scrolledTo = scroll.y2
  /\ (scroll.at = "scrolling" /\ scroll.scrolledTo >= 0)
       => scroll.y2 = scroll.scrolledTo + scroll.viewport
  /\ scroll.at = "returned" => scroll.scrolledTo = 0

(* ------------- findAllMatchingElements over page.frames() -------------- *)
\* elements of one frame's document
MaxFrameElements == 2

\* the elements the frames are made of: a close button, a link that holds a
\* search term, a button that matches nothing
FrameElements ==
  { [tag |-> "button", onclick |-> FALSE, text |-> Close, display |-> "block"],
    [tag |-> "a", onclick |-> FALSE, text |-> NoThanksLater, display |-> "block"],
    [tag |-> "button", onclick |-> FALSE, text |-> Book, display |-> "block"] }

\* a frame of page.frames(): its document, and whether evaluating in it
\* throws (a cross-origin or detached frame)
ScanFrames ==
  [doc : SeqsUpTo(FrameElements, MaxFrameElements), throws : {FALSE}]
    \cup {[doc |-> << >>, throws |-> TRUE]}

\* matches.unshift(...found) in place of push
push_front(ms, found) == found \o ms

\* matches.push(...found)
push(ms, found) == ms \o found

\* const matches = []; the loop starts at the first frame
ScanInit ==
  \E s \in PersistentQueueScripts, fs \in SeqsUpTo(ScanFrames, MaxFrames) :
    scan = [at |-> "frames", script |-> s, frames |-> fs, i |-> 1,
            matches |-> << >>, caught |-> 0]

\* try { found = await findMatchingClickableElements(frame, searchTerms);
\* matches.push(...found) } catch {}
ScanFrame ==
  /\ scan.at = "frames"
  /\ scan.i <= Len(scan.frames)
  /\ scan' =
       IF scan.frames[scan.i].throws
         THEN [scan EXCEPT !.i = @ + 1, !.caught = @ + 1]
         ELSE [scan EXCEPT !.i = @ + 1,
                           !.matches = push(@, findAllMatchingElements(scan.script,
                                                      scan.frames[scan.i].doc))]
  /\ UNCHANGED outsideScan

\* return matches
ScanReturn ==
  /\ scan.at = "frames"
  /\ scan.i > Len(scan.frames)
  /\ scan' = [scan EXCEPT !.at = "returned"]
  /\ UNCHANGED outsideScan

(* ------------------------------ C36 ------------------------------------ *)
\* the places of a document whose element the matcher of script s keeps, in
\* document order, and what is pushed for them
KeptPlaces(s, doc) ==
  SelectSeq([i \in 1..Len(doc) |-> i], LAMBDA i : kept(s, doc[i]))
InDocumentOrder(s, doc) ==
  [j \in 1..Len(KeptPlaces(s, doc)) |-> pushed(doc, KeptPlaces(s, doc)[j])]
\* frame after frame, the frames that throw left out
RECURSIVE InFrameOrder(_, _)
InFrameOrder(s, fs) ==
  IF fs = << >> THEN << >>
  ELSE (IF Head(fs).throws THEN << >> ELSE InDocumentOrder(s, Head(fs).doc))
         \o InFrameOrder(s, Tail(fs))

\* C36: what findAllMatchingElements returns is the matches of the frames
\* that did not throw, frame after frame in the order of page.frames() and
\* in document order within a frame; a frame that throws adds nothing and
\* the frames after it are scanned all the same.
C36_FramesInOrderThrowsSkipped ==
  /\ scan.at = "frames" =>
       scan.matches = InFrameOrder(scan.script, SubSeq(scan.frames, 1, scan.i - 1))
  /\ scan.at = "returned" =>
       /\ scan.i = Len(scan.frames) + 1
       /\ scan.matches = InFrameOrder(scan.script, scan.frames)

\* the first frame throws and the second one has two matches
C36_Witness ==
  /\ scan.at = "returned"
  /\ Len(scan.frames) >= 2
  /\ scan.frames[1].throws
  /\ Len(scan.matches) >= 2
  /\ scan.matches[1] # scan.matches[2]

(* ----------------- clickElements: the navigation lock ------------------ *)
\* click passes on one page
MaxPasses == 2

\* the events of one synthetic click, in the order they are dispatched
ClickEvents == <<"pointerdown", "mousedown", "pointerup", "mouseup", "click">>

\* target.dispatchEvent(new MouseEvent(type, { bubbles: true, ... })): the
\* event goes down from window in the capture phase first.  Every listener
\* the lock adds for "click" calls e.stopImmediatePropagation(), after which
\* no listener further down the path is invoked
reachesTarget(ls, type) == \A k \in 1..Len(ls) : ls[k].type # type

\* a page with a dismiss button whose own listeners are on some of the
\* events; no lock has been installed yet
LockInit ==
  \E on \in (SUBSET {"pointerdown", "mousedown", "click"}) \ {{}} :
    lock = [at |-> "install", listeners |-> << >>, targetOn |-> on,
            heard |-> << >>, pass |-> 1]

\* window.addEventListener("click", ..., true) and ("beforeunload", ..., true)
LockInstall ==
  /\ lock.at = "install"
  /\ lock' = [lock EXCEPT !.at = "dispatch",
                          !.listeners = addEventListener(addEventListener(@, "click"),
                                                         "beforeunload")]
  /\ UNCHANGED outsideLock

\* the five events are dispatched on the target; heard is what the target's
\* own listeners received, with the pass
LockDispatch ==
  /\ lock.at = "dispatch"
  /\ lock' = [lock EXCEPT
                !.at = "remove",
                !.heard = @ \o SelectSeq([k \in 1..Len(ClickEvents) |->
                                            [type |-> ClickEvents[k], pass |-> lock.pass]],
                                         LAMBDA e : /\ e.type \in lock.targetOn
                                                    /\ reachesTarget(lock.listeners, e.type))]
  /\ UNCHANGED outsideLock

\* window.removeEventListener("click", () => {}, true)
LockRemove ==
  /\ lock.at = "remove"
  /\ lock' = [lock EXCEPT !.at = "done",
                          !.listeners = removeEventListener(@, "click", Len(@) + 1)]
  /\ UNCHANGED outsideLock

\* the next element, or the next pass of clickPopups on the same page
LockAgain ==
  /\ lock.at = "done"
  /\ lock.pass < MaxPasses
  /\ lock' = [lock EXCEPT !.at = "install", !.pass = @ + 1]
  /\ UNCHANGED outsideLock

(* ------------------------------ C37 ------------------------------------ *)
\* C37: in every pass, once the click has been dispatched under the lock, a
\* target that listens for "click" has received the click event of that pass.
C37_ClickReachesTarget ==
  (lock.at \in {"remove", "done"} /\ "click" \in lock.targetOn) =>
    \E k \in 1..Len(lock.heard) :
      lock.heard[k] = [type |-> "click", pass |-> lock.pass]

\* the events other than "click" do reach the target under the lock
OtherEventsReachTarget ==
  lock.at \in {"remove", "done"} =>
    \A t \in lock.targetOn \ {"click"} :
      \E k \in 1..Len(lock.heard) : lock.heard[k] = [type |-> t, pass |-> lock.pass]

(* ------------------------------ page routines -------------------------- *)
StageInit ==
  /\ \/ SlidedownInit /\ sweep = Off /\ expand = Off /\ scroll = Off /\ scan = Off /\ lock = Off
     \/ SweepInit /\ slidedown = Off /\ expand = Off /\ scroll = Off /\ scan = Off /\ lock = Off
     \/ ExpandInit /\ slidedown = Off /\ sweep = Off /\ scroll = Off /\ scan = Off /\ lock = Off
     \/ ScrollInit /\ slidedown = Off /\ sweep = Off /\ expand = Off /\ scan = Off /\ lock = Off
     \/ ScanInit /\ slidedown = Off /\ sweep = Off /\ expand = Off /\ scroll = Off /\ lock = Off
     \/ LockInit /\ slidedown = Off /\ sweep = Off /\ expand = Off /\ scroll = Off /\ scan = Off
  /\ OutsideStageAtRest

StageNext ==
  \/ SlidedownAbsent
  \/ SlidedownClick
  \/ PageRemovesDialog
  \/ PageCreatesDialog
  \/ SlidedownAfterWait
  \/ SweepMain
  \/ SweepShadow
  \/ FrameSkipped
  \/ FrameSearched
  \/ FrameTimeout
  \/ PendingSearchClicks
  \/ PendingSearchEnds
  \/ SweepReturnsFalse
  \/ ExpandNoTrigger
  \/ ExpandClick
  \/ ExpandVerify
  \/ ExpandAgain
  \/ ScrollTo
  \/ ScrollSleep
  \/ PageGrows
  \/ ScrollReturn
  \/ ScanFrame
  \/ ScanReturn
  \/ LockInstall
  \/ LockDispatch
  \/ LockRemove
  \/ LockAgain

StageSpec == StageInit /\ [][StageNext]_vars

\* the page routines with their own steps scheduled fairly: a timer that
\* has been set fires, an awaited call that is ready is resumed
StageFairSpec ==
  StageSpec /\ WF_vars(ScrollTo) /\ WF_vars(ScrollSleep) /\ WF_vars(ScrollReturn)

====
